---------------------------- MODULE Spec2Model ----------------------------
(***************************************************************************)
(* Aritmetica PvP: the LAN multiplayer server.                             *)
(*                                                                         *)
(*   server/lobbyManager.js  (src/unnamed/part_005)  lobby registry        *)
(*   server/gameManager.js   (src/unnamed/part_004)  match coordinator     *)
(*   server/index.js                                 Socket.IO handlers    *)
(*                                                                         *)
(* Node runs every handler to completion before the next event is taken,   *)
(* so each handler (and each timer callback) is one atomic action.         *)
(***************************************************************************)
EXTENDS Integers, Sequences, FiniteSets, TLC

VARIABLES
    lobbies,        \* lobbyManager.js: Map roomCode -> Lobby
    playerToRoom,   \* lobbyManager.js: Map socketId -> roomCode
    games,          \* gameManager.js:  Map roomCode -> GameState
    timers,         \* pending setTimeout(cleanupGame) callbacks, per room code
    resolutions,    \* history: resolveRound calls in the current round of a session
    last            \* history: the event handled last and what it emitted

vars == <<lobbies, playerToRoom, games, timers, resolutions, last>>

-----------------------------------------------------------------------------
(* Inputs: the clients, the codes they can name, what they can send.        *)

\* Socket ids of the connected clients.
Sockets == {"s1", "s2", "s3"}

\* Display name each client sends as playerName (s1 and s3 pick the same one).
PlayerName(s) == CASE s = "s1" -> "Ana" [] s = "s2" -> "Beto" [] OTHER -> "Ana"

\* Characters of the room-code alphabet that the draws of the model land on.
CodeChars == {"A", "B"}

\* Number of characters generateRoomCode appends to a code.
CodeLength == 4

\* The runs of draws of one pass of the do-while loop: the same character at
\* every position.
CharDraws == {[i \in 1..CodeLength |-> ch] : ch \in CodeChars}

\* code = ''; code += chars.charAt(...) for each draw
RECURSIVE AppendChars(_, _)
AppendChars(code, draws) ==
    IF draws = <<>> THEN code
    ELSE AppendChars(code \o Head(draws), Tail(draws))

\* Codes one pass of the loop can build ("AAAA" and "BBBB").
RoomCodes == {AppendChars("", draws) : draws \in CharDraws}

\* Room codes a client can put in a payload: the codes above and a lower-case
\* spelling of one of them.
PayloadCodes == RoomCodes \cup {"aaaa"}

\* String.prototype.toUpperCase on the payload codes.
ToUpperCase(c) == IF c = "aaaa" THEN "AAAA" ELSE c

\* Difficulties a host picks when creating a lobby.
Difficulties == {"easy", "medium"}

\* null (a guest slot that is empty)
Null == "null"

\* Outcomes of Math.random(), in thousandths.
Rolls == {750}

\* Expressions the clients submit: 7+7+7, 7+7+7+7, 8+8+8+1x and the malformed 7*
\* (game:skip sends the empty one).
Expressions ==
    {<<[t |-> "n", v |-> 7], [t |-> "+", v |-> 0], [t |-> "n", v |-> 7],
       [t |-> "+", v |-> 0], [t |-> "n", v |-> 7]>>,
     <<[t |-> "n", v |-> 7], [t |-> "+", v |-> 0], [t |-> "n", v |-> 7],
       [t |-> "+", v |-> 0], [t |-> "n", v |-> 7], [t |-> "+", v |-> 0],
       [t |-> "n", v |-> 7]>>,
     <<[t |-> "n", v |-> 8], [t |-> "+", v |-> 0], [t |-> "n", v |-> 8],
       [t |-> "+", v |-> 0], [t |-> "n", v |-> 8], [t |-> "+", v |-> 0],
       [t |-> "n", v |-> 1], [t |-> "x", v |-> 0]>>,
     <<[t |-> "n", v |-> 7], [t |-> "*", v |-> 0]>>}

\* The players and the difficulty of the test suite's game-over test.
TestSockets == {"s1", "s2"}
TestDifficulties == {"easy"}

\* HP values the test harness forces on a player of a fresh session.
ForcedHps == {20, 30}

\* The difficulties of DIFFICULTY_CONFIG.
AllDifficulties == {"easy", "medium", "hard"}

\* What the test suite adds to a session's target to build a submission
\* (String(target), String(target + 20), ...).
TargetOffsets == {-2, 0, 2, 3, 7, 8, 20}

\* Submissions with no finite value: the malformed 7*, 7/0 and 0/0.
BrokenExpressions ==
    {<<[t |-> "n", v |-> 7], [t |-> "*", v |-> 0]>>,
     <<[t |-> "n", v |-> 7], [t |-> "/", v |-> 0], [t |-> "n", v |-> 0]>>,
     <<[t |-> "n", v |-> 0], [t |-> "/", v |-> 0], [t |-> "n", v |-> 0]>>}

\* Outcomes of Math.random() when the cards and the variable values are drawn,
\* for the study of the generation: they give the lowest card, the next one and
\* a high one.
DrawRolls == {50, 150, 750}

\* The difficulties whose generation is studied.
DrawDifficulties == {"easy", "medium"}

\* Caps: the round counter of a session, and the cleanup timers pending for a room.
MaxRound == 2
MaxTimers == 1

-----------------------------------------------------------------------------
(* Numbers of the expression evaluator: rationals <<n, d>> in lowest terms  *)
(* with d > 0, and the IEEE values <<1,0>> = Infinity, <<-1,0>> =           *)
(* -Infinity, <<0,0>> = NaN.  NullResult is JavaScript's null.              *)

NullResult == <<>>

Abs(i) == IF i < 0 THEN -i ELSE i
Sign(i) == IF i < 0 THEN -1 ELSE IF i > 0 THEN 1 ELSE 0
Min2(a, b) == IF a < b THEN a ELSE b
Max2(a, b) == IF a > b THEN a ELSE b

RECURSIVE Gcd(_, _)
Gcd(a, b) == IF b = 0 THEN a ELSE Gcd(b, a % b)

NaN == <<0, 0>>
Inf(s) == <<s, 0>>
IsNaN(q) == q = NaN
IsInf(q) == q[2] = 0 /\ q[1] # 0
IsFinite(q) == q[2] # 0

Norm(n, d) ==
    LET g == Gcd(Abs(n), Abs(d))
        s == IF d < 0 THEN -1 ELSE 1
    IN  IF n = 0 THEN <<0, 1>> ELSE <<s * (n \div g), s * (d \div g)>>

Whole(n) == <<n, 1>>

QNeg(a) == <<-a[1], a[2]>>

QAdd(a, b) ==
    IF IsNaN(a) \/ IsNaN(b) THEN NaN
    ELSE IF IsInf(a) /\ IsInf(b) THEN (IF a = b THEN a ELSE NaN)
    ELSE IF IsInf(a) THEN a
    ELSE IF IsInf(b) THEN b
    ELSE Norm(a[1] * b[2] + b[1] * a[2], a[2] * b[2])

QSub(a, b) == QAdd(a, QNeg(b))

QMul(a, b) ==
    IF IsNaN(a) \/ IsNaN(b) THEN NaN
    ELSE IF IsInf(a) \/ IsInf(b)
         THEN (IF a[1] = 0 \/ b[1] = 0 THEN NaN ELSE Inf(Sign(a[1]) * Sign(b[1])))
    ELSE Norm(a[1] * b[1], a[2] * b[2])

QDiv(a, b) ==
    IF IsNaN(a) \/ IsNaN(b) THEN NaN
    ELSE IF IsInf(a) THEN (IF IsInf(b) THEN NaN
                           ELSE Inf(a[1] * (IF b[1] < 0 THEN -1 ELSE 1)))
    ELSE IF IsInf(b) THEN <<0, 1>>
    ELSE IF b[1] = 0 THEN (IF a[1] = 0 THEN NaN ELSE Inf(Sign(a[1])))
    ELSE Norm(a[1] * b[2], a[2] * b[1])

QAbs(a) == <<Abs(a[1]), a[2]>>

\* a < b, a <= b for finite a, b
QLess(a, b) == a[1] * b[2] < b[1] * a[2]
QLeq(a, b) == a[1] * b[2] <= b[1] * a[2]

-----------------------------------------------------------------------------
(* Expressions.  A submitted expression is the sequence of its tokens: the  *)
(* string the client sends is their concatenation.  The evaluator is the    *)
(* part of JavaScript's eval that the game's expressions use: numerals,     *)
(* + - * /, unary signs and parentheses.  Sequences that concatenate to     *)
(* other JavaScript (two numerals in a row, "**", "//", "/*") are not sent. *)

Num(n) == [t |-> "n", v |-> n]
Sym(c) == [t |-> c, v |-> 0]

IsVar(tok) == tok.t \in {"x", "y"}

\* expr.replace(/(\d)([xy])/g, '$1*$2'), /(\))([xy])/, /([xy])(\()/, /([xy])(\d)/
NeedsMul(a, b) ==
    \/ a.t = "n" /\ IsVar(b)
    \/ a.t = ")" /\ IsVar(b)
    \/ IsVar(a) /\ b.t = "("
    \/ IsVar(a) /\ b.t = "n"

RECURSIVE InsertImplicitMul(_)
InsertImplicitMul(toks) ==
    IF Len(toks) <= 1 THEN toks
    ELSE IF NeedsMul(toks[1], toks[2])
         THEN <<toks[1], Sym("*")>> \o InsertImplicitMul(Tail(toks))
         ELSE <<toks[1]>> \o InsertImplicitMul(Tail(toks))

\* expr.replace(new RegExp(symbol, 'g'), `(${value})`) for each bound variable
RECURSIVE SubstituteVariables(_, _)
SubstituteVariables(toks, variableValues) ==
    IF toks = <<>> THEN <<>>
    ELSE LET h == toks[1]
             rest == SubstituteVariables(Tail(toks), variableValues)
         IN  IF IsVar(h) /\ h.t \in DOMAIN variableValues
             THEN <<Sym("("), Num(variableValues[h.t]), Sym(")")>> \o rest
             ELSE <<h>> \o rest

ParseFail == [ok |-> FALSE, v |-> NaN, p |-> 0]

\* "++" and "--" are the increment and decrement operators: on a numeral or a
\* parenthesis they are a SyntaxError.
HasDoubleSign(toks) ==
    \E i \in 1..(Len(toks) - 1) : toks[i].t \in {"+", "-"} /\ toks[i + 1].t = toks[i].t

RECURSIVE ParseExpr(_, _), ExprRest(_, _, _), ParseTerm(_, _), TermRest(_, _, _),
          ParseUnary(_, _), ParsePrimary(_, _)

ParsePrimary(toks, p) ==
    IF p > Len(toks) THEN ParseFail
    ELSE IF toks[p].t = "n" THEN [ok |-> TRUE, v |-> Whole(toks[p].v), p |-> p + 1]
    ELSE IF toks[p].t = "("
         THEN LET r == ParseExpr(toks, p + 1)
              IN  IF r.ok /\ r.p <= Len(toks) /\ toks[r.p].t = ")"
                  THEN [r EXCEPT !.p = r.p + 1]
                  ELSE ParseFail
    ELSE ParseFail      \* an unbound x or y (ReferenceError), or a misplaced token

ParseUnary(toks, p) ==
    IF p > Len(toks) THEN ParseFail
    ELSE IF toks[p].t \in {"+", "-"}
         THEN LET r == ParseUnary(toks, p + 1)
              IN  IF ~r.ok THEN ParseFail
                  ELSE IF toks[p].t = "-" THEN [r EXCEPT !.v = QNeg(r.v)] ELSE r
    ELSE ParsePrimary(toks, p)

TermRest(toks, acc, p) ==
    IF p <= Len(toks) /\ toks[p].t \in {"*", "/"}
    THEN LET r == ParseUnary(toks, p + 1)
         IN  IF ~r.ok THEN ParseFail
             ELSE TermRest(toks, IF toks[p].t = "*" THEN QMul(acc, r.v) ELSE QDiv(acc, r.v), r.p)
    ELSE [ok |-> TRUE, v |-> acc, p |-> p]

ParseTerm(toks, p) ==
    LET r == ParseUnary(toks, p)
    IN  IF ~r.ok THEN ParseFail ELSE TermRest(toks, r.v, r.p)

ExprRest(toks, acc, p) ==
    IF p <= Len(toks) /\ toks[p].t \in {"+", "-"}
    THEN LET r == ParseTerm(toks, p + 1)
         IN  IF ~r.ok THEN ParseFail
             ELSE ExprRest(toks, IF toks[p].t = "+" THEN QAdd(acc, r.v) ELSE QSub(acc, r.v), r.p)
    ELSE [ok |-> TRUE, v |-> acc, p |-> p]

ParseExpr(toks, p) ==
    LET r == ParseTerm(toks, p)
    IN  IF ~r.ok THEN ParseFail ELSE ExprRest(toks, r.v, r.p)

\* eval(expr): the value, or ParseFail when eval throws.
Eval(toks) ==
    IF HasDoubleSign(toks) THEN ParseFail
    ELSE LET r == ParseExpr(toks, 1)
         IN  IF r.ok /\ r.p = Len(toks) + 1 THEN r ELSE ParseFail

\* An evaluateExpression without the isNaN / isFinite check.
evaluateExpressionUnchecked(expression, variableValues) ==
    IF expression = <<>> THEN NullResult
    ELSE LET expr == SubstituteVariables(InsertImplicitMul(expression), variableValues)
             result == Eval(expr)
         IN  IF ~result.ok THEN NullResult ELSE result.v

evaluateExpression(expression, variableValues) ==
    IF expression = <<>> THEN NullResult
    ELSE LET expr == SubstituteVariables(InsertImplicitMul(expression), variableValues)
             result == Eval(expr)
         IN  IF ~result.ok THEN NullResult
             ELSE IF IsNaN(result.v) \/ ~IsFinite(result.v) THEN NullResult
             ELSE result.v

-----------------------------------------------------------------------------
(* gameManager.js: configuration and generation.                            *)

DIFFICULTY_CONFIG(difficulty) ==
    CASE difficulty = "easy" ->
           [cardRange |-> [min |-> 1, max |-> 9], cardCount |-> 4,
            targetRange |-> [min |-> 5, max |-> 30],
            allowParentheses |-> FALSE, operatorSymbols |-> {"+", "-"},
            accuracyThresholds |->
                [perfect |-> 0, excellent |-> 3, good |-> 6, ok |-> 10, miss |-> 15],
            playerHp |-> 150,
            variableConfig |-> [enabled |-> FALSE, count |-> 0,
                                valueRange |-> [min |-> 0, max |-> 0]]]
      [] difficulty = "medium" ->
           [cardRange |-> [min |-> 2, max |-> 10], cardCount |-> 3,
            targetRange |-> [min |-> 10, max |-> 60],
            allowParentheses |-> TRUE, operatorSymbols |-> {"+", "-", "*"},
            accuracyThresholds |->
                [perfect |-> 0, excellent |-> 2, good |-> 4, ok |-> 7, miss |-> 12],
            playerHp |-> 200,
            variableConfig |-> [enabled |-> TRUE, count |-> 1,
                                valueRange |-> [min |-> 2, max |-> 8]]]
      [] difficulty = "hard" ->
           [cardRange |-> [min |-> 2, max |-> 20], cardCount |-> 3,
            targetRange |-> [min |-> 20, max |-> 120],
            allowParentheses |-> TRUE, operatorSymbols |-> {"+", "-", "*", "/"},
            accuracyThresholds |->
                [perfect |-> 0, excellent |-> 1, good |-> 2, ok |-> 4, miss |-> 8],
            playerHp |-> 250,
            variableConfig |-> [enabled |-> TRUE, count |-> 2,
                                valueRange |-> [min |-> 2, max |-> 10]]]

\* Math.floor(Math.random() * (max - min + 1)) + min when Math.random() gives
\* u thousandths
randomIntAt(u, min, max) == ((u * (max - min + 1)) \div 1000) + min

\* randomInt over the modelled rolls
randomInt(min, max) == {randomIntAt(u, min, max) : u \in Rolls}

generateCards(difficulty) ==
    LET config == DIFFICULTY_CONFIG(difficulty)
    IN  [1..config.cardCount -> randomInt(config.cardRange.min, config.cardRange.max)]

VariableSymbols == <<"x", "y">>

generateVariables(difficulty) ==
    LET vc == DIFFICULTY_CONFIG(difficulty).variableConfig
        n == IF vc.enabled THEN vc.count ELSE 0
    IN  {[i \in 1..n |-> [symbol |-> VariableSymbols[i], value |-> val[i]]] :
            val \in [1..n -> randomInt(vc.valueRange.min, vc.valueRange.max)]}

generateVariableValues(difficulty) ==
    LET vc == DIFFICULTY_CONFIG(difficulty).variableConfig
        n == IF vc.enabled THEN vc.count ELSE 0
    IN  [{VariableSymbols[i] : i \in 1..n} ->
            randomInt(vc.valueRange.min, vc.valueRange.max)]

\* [...cards].sort(() => Math.random() - 0.5): the order an inconsistent comparator
\* leaves is the engine's choice; any permutation of the cards can come out.
Shuffles(cards) ==
    {[i \in 1..Len(cards) |-> cards[perm[i]]] :
        perm \in {f \in [1..Len(cards) -> 1..Len(cards)] :
                    \A i, j \in 1..Len(cards) : f[i] = f[j] => i = j}}

RECURSIVE SignedSum(_, _, _)
SignedSum(shuffled, ops, n) ==
    IF n = 0 THEN 0 ELSE SignedSum(shuffled, ops, n - 1) + shuffled[n] * ops[n]

\* The targets generateTarget can return for these cards and variable values.
generateTarget(difficulty, cards, variableValues) ==
    LET config == DIFFICULTY_CONFIG(difficulty)
        numCardsToUse == Min2(3, Len(cards))
        opChoices == {IF u > 300 THEN 1 ELSE -1 : u \in Rolls}
        xTerms == IF "x" \in DOMAIN variableValues /\ variableValues["x"] # 0
                  THEN {variableValues["x"] * (IF u > 500 THEN 1 ELSE 2) : u \in Rolls}
                  ELSE {0}
    IN  {Max2(config.targetRange.min,
              Min2(config.targetRange.max,
                   Abs(SignedSum(shuffled, ops, numCardsToUse) + xt))) :
            shuffled \in Shuffles(cards),
            ops \in [1..numCardsToUse -> opChoices],
            xt \in xTerms}

\* A calculateDamage for which a difference equal to the miss threshold is
\* still close.
calculateDamageLateMiss(result, target, difficulty) ==
    IF result = NullResult
    THEN [damage |-> 0, type |-> "miss", isMiss |-> TRUE, difference |-> NullResult]
    ELSE LET thresholds == DIFFICULTY_CONFIG(difficulty).accuracyThresholds
             difference == QAbs(QSub(result, Whole(target)))
             type == IF difference = Whole(thresholds.perfect) THEN "perfect"
                     ELSE IF QLeq(difference, Whole(thresholds.excellent)) THEN "excellent"
                     ELSE IF QLeq(difference, Whole(thresholds.good)) THEN "good"
                     ELSE IF QLeq(difference, Whole(thresholds.ok)) THEN "ok"
                     ELSE IF QLeq(difference, Whole(thresholds.miss)) THEN "close"
                     ELSE "miss"
             baseDamage == CASE type = "perfect" -> 50
                             [] type = "excellent" -> 40
                             [] type = "good" -> 30
                             [] type = "ok" -> 20
                             [] type = "close" -> 10
                             [] OTHER -> 0
         IN  [damage |-> baseDamage, type |-> type, isMiss |-> (type = "miss"),
              difference |-> difference]

calculateDamage(result, target, difficulty) ==
    IF result = NullResult
    THEN [damage |-> 0, type |-> "miss", isMiss |-> TRUE, difference |-> NullResult]
    ELSE LET thresholds == DIFFICULTY_CONFIG(difficulty).accuracyThresholds
             difference == QAbs(QSub(result, Whole(target)))
             type == IF difference = Whole(thresholds.perfect) THEN "perfect"
                     ELSE IF QLeq(difference, Whole(thresholds.excellent)) THEN "excellent"
                     ELSE IF QLeq(difference, Whole(thresholds.good)) THEN "good"
                     ELSE IF QLeq(difference, Whole(thresholds.ok)) THEN "ok"
                     ELSE IF QLess(difference, Whole(thresholds.miss)) THEN "close"
                     ELSE "miss"
             baseDamage == CASE type = "perfect" -> 50
                             [] type = "excellent" -> 40
                             [] type = "good" -> 30
                             [] type = "ok" -> 20
                             [] type = "close" -> 10
                             [] OTHER -> 0
         IN  [damage |-> baseDamage, type |-> type, isMiss |-> (type = "miss"),
              difference |-> difference]

-----------------------------------------------------------------------------
(* JavaScript Maps: functions whose domain is the set of keys present.      *)

EmptyMap == [k \in {} |-> Null]
MapHas(m, k) == k \in DOMAIN m
MapSet(m, k, v) == [x \in (DOMAIN m) \cup {k} |-> IF x = k THEN v ELSE m[x]]
MapDelete(m, k) == [x \in (DOMAIN m) \ {k} |-> m[x]]

-----------------------------------------------------------------------------
(* gameManager.js: the session functions, as functions of the games Map.    *)

NewPlayer(id, name, hp, cards, variables) ==
    [id |-> id, name |-> name, hp |-> hp, maxHp |-> hp, cards |-> cards,
     variables |-> variables, expression |-> <<>>, submitted |-> FALSE,
     result |-> NullResult]

\* What one round's generation can produce: generateVariableValues,
\* generateCards, generateVariables, then generateTarget on the cards drawn.
Deals(difficulty) ==
    UNION {{[variableValues |-> vv, sharedCards |-> sc, sharedVariables |-> sv,
             target |-> t] :
               sv \in generateVariables(difficulty),
               t \in generateTarget(difficulty, sc, vv)} :
           vv \in generateVariableValues(difficulty),
           sc \in generateCards(difficulty)}

\* The gameState object initializeGame builds from what the generation gave.
NewGameState(roomCode, lobby, deal) ==
    LET difficulty == lobby.difficulty
        config == DIFFICULTY_CONFIG(difficulty)
    IN  [roomCode |-> roomCode, difficulty |-> difficulty, target |-> deal.target,
         variableValues |-> deal.variableValues,
         sharedCards |-> deal.sharedCards,
         sharedVariables |-> deal.sharedVariables,
         player1 |-> NewPlayer(lobby.hostId, lobby.hostName, config.playerHp,
                               deal.sharedCards, deal.sharedVariables),
         player2 |-> NewPlayer(lobby.guestId, lobby.guestName, config.playerHp,
                               deal.sharedCards, deal.sharedVariables),
         round |-> 1, status |-> "playing"]

\* initializeGame: the games Maps it can leave (one per outcome of the generation).
initializeGame(gm, roomCode, lobby) ==
    {MapSet(gm, roomCode, NewGameState(roomCode, lobby, deal)) :
        deal \in Deals(lobby.difficulty)}

\* A view that also carries the opponent's result.
getGameStateLeaking(gm, roomCode, playerId) ==
    IF ~MapHas(gm, roomCode) THEN <<>>
    ELSE LET game == gm[roomCode]
             isPlayer1 == game.player1.id = playerId
             myPlayer == IF isPlayer1 THEN game.player1 ELSE game.player2
             opponent == IF isPlayer1 THEN game.player2 ELSE game.player1
         IN  <<[roomCode |-> game.roomCode, difficulty |-> game.difficulty,
                target |-> game.target, variableValues |-> game.variableValues,
                round |-> game.round, status |-> game.status,
                myCards |-> myPlayer.cards,
                myVariables |-> [i \in 1..Len(myPlayer.variables) |->
                                    myPlayer.variables[i].symbol],
                myHp |-> myPlayer.hp, myMaxHp |-> myPlayer.maxHp,
                myName |-> myPlayer.name, mySubmitted |-> myPlayer.submitted,
                opponentName |-> opponent.name, opponentHp |-> opponent.hp,
                opponentMaxHp |-> opponent.maxHp,
                opponentSubmitted |-> opponent.submitted,
                opponentResult |-> opponent.result]>>

\* The per-player view.  null when there is no session.
getGameState(gm, roomCode, playerId) ==
    IF ~MapHas(gm, roomCode) THEN <<>>
    ELSE LET game == gm[roomCode]
             isPlayer1 == game.player1.id = playerId
             myPlayer == IF isPlayer1 THEN game.player1 ELSE game.player2
             opponent == IF isPlayer1 THEN game.player2 ELSE game.player1
         IN  <<[roomCode |-> game.roomCode, difficulty |-> game.difficulty,
                target |-> game.target, variableValues |-> game.variableValues,
                round |-> game.round, status |-> game.status,
                myCards |-> myPlayer.cards,
                myVariables |-> [i \in 1..Len(myPlayer.variables) |->
                                    myPlayer.variables[i].symbol],
                myHp |-> myPlayer.hp, myMaxHp |-> myPlayer.maxHp,
                myName |-> myPlayer.name, mySubmitted |-> myPlayer.submitted,
                opponentName |-> opponent.name, opponentHp |-> opponent.hp,
                opponentMaxHp |-> opponent.maxHp,
                opponentSubmitted |-> opponent.submitted]>>

ErrNoGame == "Juego no encontrado"
ErrNotPlaying == "No es momento de enviar expresiones"
ErrAlreadySubmitted == "Ya enviaste tu expresion"

\* A submitPlayerExpression without the status check.
submitPlayerExpressionAnyStatus(gm, roomCode, playerId, expression) ==
    IF ~MapHas(gm, roomCode)
    THEN [games |-> gm, success |-> FALSE, error |-> ErrNoGame]
    ELSE LET game == gm[roomCode]
             slot == IF game.player1.id = playerId THEN "player1" ELSE "player2"
         IN  IF game[slot].submitted
             THEN [games |-> gm, success |-> FALSE, error |-> ErrAlreadySubmitted]
             ELSE [games |-> [gm EXCEPT ![roomCode][slot] =
                                [game[slot] EXCEPT
                                   !.expression = expression,
                                   !.submitted = TRUE,
                                   !.result = evaluateExpression(expression,
                                                                 game.variableValues)]],
                   success |-> TRUE, error |-> ""]

\* A submitPlayerExpression without the "Ya enviaste" check: a second submission
\* overwrites the first.
submitPlayerExpressionOverwriting(gm, roomCode, playerId, expression) ==
    IF ~MapHas(gm, roomCode)
    THEN [games |-> gm, success |-> FALSE, error |-> ErrNoGame]
    ELSE LET game == gm[roomCode]
             slot == IF game.player1.id = playerId THEN "player1" ELSE "player2"
         IN  IF game.status # "playing"
             THEN [games |-> gm, success |-> FALSE, error |-> ErrNotPlaying]
             ELSE [games |-> [gm EXCEPT ![roomCode][slot] =
                                [game[slot] EXCEPT
                                   !.expression = expression,
                                   !.submitted = TRUE,
                                   !.result = evaluateExpression(expression,
                                                                 game.variableValues)]],
                   success |-> TRUE, error |-> ""]

\* A submitPlayerExpression that stores the submission in the first free slot
\* instead of the sender's.
submitPlayerExpressionByArrival(gm, roomCode, playerId, expression) ==
    IF ~MapHas(gm, roomCode)
    THEN [games |-> gm, success |-> FALSE, error |-> ErrNoGame]
    ELSE LET game == gm[roomCode]
             slot == IF ~game.player1.submitted THEN "player1" ELSE "player2"
         IN  IF game.status # "playing"
             THEN [games |-> gm, success |-> FALSE, error |-> ErrNotPlaying]
             ELSE IF game[slot].submitted
             THEN [games |-> gm, success |-> FALSE, error |-> ErrAlreadySubmitted]
             ELSE [games |-> [gm EXCEPT ![roomCode][slot] =
                                [game[slot] EXCEPT
                                   !.expression = expression,
                                   !.submitted = TRUE,
                                   !.result = evaluateExpression(expression,
                                                                 game.variableValues)]],
                   success |-> TRUE, error |-> ""]

submitPlayerExpression(gm, roomCode, playerId, expression) ==
    IF ~MapHas(gm, roomCode)
    THEN [games |-> gm, success |-> FALSE, error |-> ErrNoGame]
    ELSE LET game == gm[roomCode]
             isPlayer1 == game.player1.id = playerId
             slot == IF isPlayer1 THEN "player1" ELSE "player2"
             player == game[slot]
         IN  IF game.status # "playing"
             THEN [games |-> gm, success |-> FALSE, error |-> ErrNotPlaying]
             ELSE IF player.submitted
             THEN [games |-> gm, success |-> FALSE, error |-> ErrAlreadySubmitted]
             ELSE [games |-> [gm EXCEPT ![roomCode][slot] =
                                [player EXCEPT
                                   !.expression = expression,
                                   !.submitted = TRUE,
                                   !.result = evaluateExpression(expression,
                                                                 game.variableValues)]],
                   success |-> TRUE, error |-> ""]

\* A checkBothPlayersReady that is satisfied by either player's submission.
checkBothPlayersReadyEither(gm, roomCode) ==
    IF ~MapHas(gm, roomCode) THEN FALSE
    ELSE gm[roomCode].player1.submitted \/ gm[roomCode].player2.submitted

checkBothPlayersReady(gm, roomCode) ==
    IF ~MapHas(gm, roomCode) THEN FALSE
    ELSE gm[roomCode].player1.submitted /\ gm[roomCode].player2.submitted

\* a < b on distances, where Infinity stands for "no result"
DiffLess(a, b) == IsFinite(a) /\ (~IsFinite(b) \/ QLess(a, b))

NoAnswer == <<Sym("(sin respuesta)")>>

\* resolveRound, in the order of its statements; each step hands the values
\* computed so far to the next one.

\* Math.abs(result - target), Infinity for a null result
Difference(result, target) ==
    IF result # NullResult THEN QAbs(QSub(result, Whole(target))) ELSE Inf(1)

\* An if-chain in which the farther result wins.
RoundBranchFarther(p1Damage, p2Damage, p1Diff, p2Diff) ==
    IF p1Damage.isMiss /\ p2Damage.isMiss THEN "draw_miss"
    ELSE IF DiffLess(p2Diff, p1Diff) THEN "p1"
    ELSE IF DiffLess(p1Diff, p2Diff) THEN "p2"
    ELSE "draw"

\* An if-chain without the both-miss case.
RoundBranchNoMissDraw(p1Damage, p2Damage, p1Diff, p2Diff) ==
    IF DiffLess(p1Diff, p2Diff) THEN "p1"
    ELSE IF DiffLess(p2Diff, p1Diff) THEN "p2"
    ELSE "draw"

\* "Determinar ganador de la ronda": which branch of the if-chain is taken
RoundBranch(p1Damage, p2Damage, p1Diff, p2Diff) ==
    IF p1Damage.isMiss /\ p2Damage.isMiss THEN "draw_miss"
    ELSE IF DiffLess(p1Diff, p2Diff) THEN "p1"
    ELSE IF DiffLess(p2Diff, p1Diff) THEN "p2"
    ELSE "draw"

\* A tie in which both players take the full damage.
RoundDamageFullOnDraw(game, branch, p1Damage, p2Damage) ==
    CASE branch = "draw_miss" ->
           [winner |-> "draw_miss", p1DamageTaken |-> 0, p2DamageTaken |-> 0]
      [] branch = "p1" ->
           [winner |-> game.player1.name, p1DamageTaken |-> 0,
            p2DamageTaken |-> p1Damage.damage]
      [] branch = "p2" ->
           [winner |-> game.player2.name, p1DamageTaken |-> p2Damage.damage,
            p2DamageTaken |-> 0]
      [] OTHER ->
           [winner |-> "draw", p1DamageTaken |-> p2Damage.damage,
            p2DamageTaken |-> p1Damage.damage]

\* winner, p1DamageTaken and p2DamageTaken as the branch assigns them
RoundDamage(game, branch, p1Damage, p2Damage) ==
    CASE branch = "draw_miss" ->
           [winner |-> "draw_miss", p1DamageTaken |-> 0, p2DamageTaken |-> 0]
      [] branch = "p1" ->
           [winner |-> game.player1.name, p1DamageTaken |-> 0,
            p2DamageTaken |-> p1Damage.damage]
      [] branch = "p2" ->
           [winner |-> game.player2.name, p1DamageTaken |-> p2Damage.damage,
            p2DamageTaken |-> 0]
      [] OTHER ->
           [winner |-> "draw", p1DamageTaken |-> p2Damage.damage \div 2,
            p2DamageTaken |-> p1Damage.damage \div 2]

\* A game-over check that names player1 the winner when both hp are 0.
GameOverNoDraw(game, hp1, hp2) ==
    IF hp2 <= 0 THEN [gameOver |-> TRUE, gameWinner |-> game.player1.name]
    ELSE IF hp1 <= 0 THEN [gameOver |-> TRUE, gameWinner |-> game.player2.name]
    ELSE [gameOver |-> FALSE, gameWinner |-> Null]

\* "Verificar game over"
GameOver(game, hp1, hp2) ==
    IF hp1 <= 0 /\ hp2 <= 0 THEN [gameOver |-> TRUE, gameWinner |-> "draw"]
    ELSE IF hp1 <= 0 THEN [gameOver |-> TRUE, gameWinner |-> game.player2.name]
    ELSE IF hp2 <= 0 THEN [gameOver |-> TRUE, gameWinner |-> game.player1.name]
    ELSE [gameOver |-> FALSE, gameWinner |-> Null]

\* One player's part of the result object
PlayerResult(player, diff, damage, damageTaken, hp) ==
    [name |-> player.name,
     expression |-> IF player.expression = <<>> THEN NoAnswer ELSE player.expression,
     result |-> player.result,
     difference |-> IF IsFinite(diff) THEN diff ELSE NullResult,
     damageType |-> damage.type, damageTaken |-> damageTaken, currentHp |-> hp]

\* A reset that clears the submitted flag only.
ClearedFlagOnly(player, hp) ==
    [player EXCEPT !.hp = hp, !.submitted = FALSE]

\* "Solo resetear estados de envio"
Cleared(player, hp) ==
    [player EXCEPT !.hp = hp, !.expression = <<>>, !.submitted = FALSE,
                   !.result = NullResult]

\* The result object and the session as resolveRound leaves it
RoundEnd(gm, roomCode, game, p1Damage, p2Damage, p1Diff, p2Diff, taken, hp1, hp2, over) ==
    [games |->
        [gm EXCEPT ![roomCode] =
            IF ~over.gameOver
            THEN [game EXCEPT !.status = "waiting_next",
                              !.player1 = Cleared(game.player1, hp1),
                              !.player2 = Cleared(game.player2, hp2)]
            ELSE [game EXCEPT !.status = "finished",
                              !.player1.hp = hp1, !.player2.hp = hp2]],
     result |->
        <<[round |-> game.round, target |-> game.target,
           player1 |-> PlayerResult(game.player1, p1Diff, p1Damage,
                                    taken.p1DamageTaken, hp1),
           player2 |-> PlayerResult(game.player2, p2Diff, p2Damage,
                                    taken.p2DamageTaken, hp2),
           roundWinner |-> taken.winner, gameOver |-> over.gameOver,
           winner |-> over.gameWinner,
           finalStats |-> IF over.gameOver
                          THEN <<[player1 |-> [name |-> game.player1.name,
                                               finalHp |-> hp1],
                                  player2 |-> [name |-> game.player2.name,
                                               finalHp |-> hp2],
                                  totalRounds |-> game.round]>>
                          ELSE <<>>]>>]

\* "Aplicar dano"
ApplyDamage(gm, roomCode, game, p1Damage, p2Damage, p1Diff, p2Diff, taken, hp1, hp2) ==
    RoundEnd(gm, roomCode, game, p1Damage, p2Damage, p1Diff, p2Diff, taken, hp1, hp2,
             GameOver(game, hp1, hp2))

\* An "Aplicar dano" without the Math.max(0, ...).
DecideRoundUnclamped(gm, roomCode, game, p1Damage, p2Damage, p1Diff, p2Diff, taken) ==
    ApplyDamage(gm, roomCode, game, p1Damage, p2Damage, p1Diff, p2Diff, taken,
                game.player1.hp - taken.p1DamageTaken,
                game.player2.hp - taken.p2DamageTaken)

DecideRound(gm, roomCode, game, p1Damage, p2Damage, p1Diff, p2Diff, taken) ==
    ApplyDamage(gm, roomCode, game, p1Damage, p2Damage, p1Diff, p2Diff, taken,
                Max2(0, game.player1.hp - taken.p1DamageTaken),
                Max2(0, game.player2.hp - taken.p2DamageTaken))

CompareResults(gm, roomCode, game, p1Damage, p2Damage, p1Diff, p2Diff) ==
    DecideRound(gm, roomCode, game, p1Damage, p2Damage, p1Diff, p2Diff,
                RoundDamage(game, RoundBranch(p1Damage, p2Damage, p1Diff, p2Diff),
                            p1Damage, p2Damage))

\* resolveRound: the Map it leaves and what it returns (<<>> for null).
resolveRound(gm, roomCode) ==
    IF ~MapHas(gm, roomCode) THEN [games |-> gm, result |-> <<>>]
    ELSE CompareResults(gm, roomCode, gm[roomCode],
            calculateDamage(gm[roomCode].player1.result, gm[roomCode].target,
                            gm[roomCode].difficulty),
            calculateDamage(gm[roomCode].player2.result, gm[roomCode].target,
                            gm[roomCode].difficulty),
            Difference(gm[roomCode].player1.result, gm[roomCode].target),
            Difference(gm[roomCode].player2.result, gm[roomCode].target))

\* startNextRound: the Maps it can leave; the empty set when it returns null.
\* A next round that deals the new cards and variables to player1 only.
NextRoundStateOneHand(game, deal) ==
    LET fresh(player) ==
            [player EXCEPT !.expression = <<>>, !.submitted = FALSE,
                           !.result = NullResult]
    IN  [game EXCEPT !.round = game.round + 1,
                     !.target = deal.target,
                     !.variableValues = deal.variableValues,
                     !.sharedCards = deal.sharedCards,
                     !.sharedVariables = deal.sharedVariables,
                     !.player1 = [fresh(game.player1) EXCEPT
                                     !.cards = deal.sharedCards,
                                     !.variables = deal.sharedVariables],
                     !.player2 = fresh(game.player2)]

\* The session as startNextRound leaves it when its generation gives `deal`.
NextRoundState(game, deal) ==
    LET fresh(player) ==
            [player EXCEPT !.cards = deal.sharedCards,
                           !.variables = deal.sharedVariables,
                           !.expression = <<>>, !.submitted = FALSE,
                           !.result = NullResult]
    IN  [game EXCEPT !.round = game.round + 1,
                     !.target = deal.target,
                     !.variableValues = deal.variableValues,
                     !.sharedCards = deal.sharedCards,
                     !.sharedVariables = deal.sharedVariables,
                     !.player1 = fresh(game.player1),
                     !.player2 = fresh(game.player2)]

startNextRound(gm, roomCode) ==
    IF ~MapHas(gm, roomCode) THEN {}
    ELSE {[gm EXCEPT ![roomCode] = NextRoundState(gm[roomCode], deal)] :
             deal \in Deals(gm[roomCode].difficulty)}

skipPlayerTurn(gm, roomCode, playerId) ==
    submitPlayerExpression(gm, roomCode, playerId, <<>>)

\* A cleanupGame that deletes nothing.
cleanupGameKept(gm, roomCode) == gm

cleanupGame(gm, roomCode) == MapDelete(gm, roomCode)

-----------------------------------------------------------------------------
(* lobbyManager.js, as functions of the registry: the lobbies Map and the   *)
(* playerToRoom Map.                                                        *)

Registry(lm, p2r) == [lobbies |-> lm, playerToRoom |-> p2r]

ErrInRoom == "Ya estas en una sala. Abandonala primero."
ErrNotFound == "Sala no encontrada. Verifica el codigo."
ErrFull == "La sala esta llena."
ErrUnavailable == "La sala ya no esta disponible."

\* A generateRoomCode that returns the code of its first pass.
generateRoomCodeOnce(reg) == RoomCodes

\* The codes the do-while loop can end with: those no lobby holds.
generateRoomCode(reg) == {code \in RoomCodes : ~MapHas(reg.lobbies, code)}

\* A createLobby without the already-in-a-room check.
createLobbyAnyCaller(reg, hostSocketId, hostName, difficulty) ==
    {[reg |-> Registry(
                 MapSet(reg.lobbies, roomCode,
                        [roomCode |-> roomCode, hostId |-> hostSocketId,
                         hostName |-> hostName, guestId |-> Null,
                         guestName |-> Null, difficulty |-> difficulty,
                         status |-> "waiting"]),
                 MapSet(reg.playerToRoom, hostSocketId, roomCode)),
       ok |-> TRUE, error |-> "", roomCode |-> roomCode] :
     roomCode \in generateRoomCode(reg)}

\* createLobby: its possible outcomes (one per room code it can draw).  The
\* lobby's createdAt (Date.now()) is read by getAvailableLobbies only and is
\* attached there (Stamped).
createLobby(reg, hostSocketId, hostName, difficulty) ==
    IF MapHas(reg.playerToRoom, hostSocketId)
    THEN {[reg |-> reg, ok |-> FALSE, error |-> ErrInRoom, roomCode |-> ""]}
    ELSE {[reg |-> Registry(
                      MapSet(reg.lobbies, roomCode,
                             [roomCode |-> roomCode, hostId |-> hostSocketId,
                              hostName |-> hostName, guestId |-> Null,
                              guestName |-> Null, difficulty |-> difficulty,
                              status |-> "waiting"]),
                      MapSet(reg.playerToRoom, hostSocketId, roomCode)),
            ok |-> TRUE, error |-> "", roomCode |-> roomCode] :
          roomCode \in generateRoomCode(reg)}

\* A joinLobby without the "La sala esta llena" check.
joinLobbyOverFull(reg, guestSocketId, roomCode, guestName) ==
    LET code == ToUpperCase(roomCode)
        fail(msg) == [reg |-> reg, ok |-> FALSE, error |-> msg]
    IN  IF MapHas(reg.playerToRoom, guestSocketId) THEN fail(ErrInRoom)
        ELSE IF ~MapHas(reg.lobbies, code) THEN fail(ErrNotFound)
        ELSE IF reg.lobbies[code].status # "waiting" THEN fail(ErrUnavailable)
        ELSE [reg |-> Registry(
                         [reg.lobbies EXCEPT ![code] =
                             [@ EXCEPT !.guestId = guestSocketId,
                                       !.guestName = guestName,
                                       !.status = "ready"]],
                         MapSet(reg.playerToRoom, guestSocketId, code)),
              ok |-> TRUE, error |-> ""]

joinLobby(reg, guestSocketId, roomCode, guestName) ==
    LET code == ToUpperCase(roomCode)
        fail(msg) == [reg |-> reg, ok |-> FALSE, error |-> msg]
    IN  IF MapHas(reg.playerToRoom, guestSocketId) THEN fail(ErrInRoom)
        ELSE IF ~MapHas(reg.lobbies, code) THEN fail(ErrNotFound)
        ELSE IF reg.lobbies[code].guestId # Null THEN fail(ErrFull)
        ELSE IF reg.lobbies[code].status # "waiting" THEN fail(ErrUnavailable)
        ELSE [reg |-> Registry(
                         [reg.lobbies EXCEPT ![code] =
                             [@ EXCEPT !.guestId = guestSocketId,
                                       !.guestName = guestName,
                                       !.status = "ready"]],
                         MapSet(reg.playerToRoom, guestSocketId, code)),
              ok |-> TRUE, error |-> ""]

\* A leaveLobby whose host branch forgets the guest's playerToRoom entry.
leaveLobbyKeepingGuest(reg, socketId) ==
    IF ~MapHas(reg.playerToRoom, socketId) THEN [reg |-> reg, deleted |-> FALSE]
    ELSE LET roomCode == reg.playerToRoom[socketId]
         IN  IF ~MapHas(reg.lobbies, roomCode)
             THEN [reg |-> Registry(reg.lobbies, MapDelete(reg.playerToRoom, socketId)),
                   deleted |-> FALSE]
             ELSE LET lobby == reg.lobbies[roomCode]
                  IN  IF lobby.hostId = socketId
                      THEN [reg |-> Registry(MapDelete(reg.lobbies, roomCode),
                                             MapDelete(reg.playerToRoom, socketId)),
                            deleted |-> TRUE]
                      ELSE IF lobby.guestId = socketId
                      THEN [reg |-> Registry(
                                       [reg.lobbies EXCEPT ![roomCode] =
                                           [@ EXCEPT !.guestId = Null,
                                                     !.guestName = Null,
                                                     !.status = "waiting"]],
                                       MapDelete(reg.playerToRoom, socketId)),
                            deleted |-> FALSE]
                      ELSE [reg |-> reg, deleted |-> FALSE]

\* A leaveLobby whose guest branch leaves the status as it was.
leaveLobbySameStatus(reg, socketId) ==
    IF ~MapHas(reg.playerToRoom, socketId) THEN [reg |-> reg, deleted |-> FALSE]
    ELSE LET roomCode == reg.playerToRoom[socketId]
         IN  IF ~MapHas(reg.lobbies, roomCode)
             THEN [reg |-> Registry(reg.lobbies, MapDelete(reg.playerToRoom, socketId)),
                   deleted |-> FALSE]
             ELSE LET lobby == reg.lobbies[roomCode]
                  IN  IF lobby.hostId = socketId
                      THEN [reg |-> Registry(
                                       MapDelete(reg.lobbies, roomCode),
                                       MapDelete(
                                          IF lobby.guestId # Null
                                          THEN MapDelete(reg.playerToRoom, lobby.guestId)
                                          ELSE reg.playerToRoom,
                                          socketId)),
                            deleted |-> TRUE]
                      ELSE IF lobby.guestId = socketId
                      THEN [reg |-> Registry(
                                       [reg.lobbies EXCEPT ![roomCode] =
                                           [@ EXCEPT !.guestId = Null,
                                                     !.guestName = Null]],
                                       MapDelete(reg.playerToRoom, socketId)),
                            deleted |-> FALSE]
                      ELSE [reg |-> reg, deleted |-> FALSE]

leaveLobby(reg, socketId) ==
    IF ~MapHas(reg.playerToRoom, socketId) THEN [reg |-> reg, deleted |-> FALSE]
    ELSE LET roomCode == reg.playerToRoom[socketId]
         IN  IF ~MapHas(reg.lobbies, roomCode)
             THEN [reg |-> Registry(reg.lobbies, MapDelete(reg.playerToRoom, socketId)),
                   deleted |-> FALSE]
             ELSE LET lobby == reg.lobbies[roomCode]
                  IN  IF lobby.hostId = socketId
                      THEN [reg |-> Registry(
                                       MapDelete(reg.lobbies, roomCode),
                                       MapDelete(
                                          IF lobby.guestId # Null
                                          THEN MapDelete(reg.playerToRoom, lobby.guestId)
                                          ELSE reg.playerToRoom,
                                          socketId)),
                            deleted |-> TRUE]
                      ELSE IF lobby.guestId = socketId
                      THEN [reg |-> Registry(
                                       [reg.lobbies EXCEPT ![roomCode] =
                                           [@ EXCEPT !.guestId = Null,
                                                     !.guestName = Null,
                                                     !.status = "waiting"]],
                                       MapDelete(reg.playerToRoom, socketId)),
                            deleted |-> FALSE]
                      ELSE [reg |-> reg, deleted |-> FALSE]

\* The lobbies Map as getAvailableLobbies iterates it: the lobbies in the
\* insertion order `order`, each with the createdAt that createLobby read
\* from Date.now().
Stamped(lm, order, at) ==
    [i \in 1..Len(order) |->
        [roomCode |-> lm[order[i]].roomCode, hostName |-> lm[order[i]].hostName,
         guestId |-> lm[order[i]].guestId, difficulty |-> lm[order[i]].difficulty,
         status |-> lm[order[i]].status, createdAt |-> at[order[i]]]]

\* available.push({ roomCode, hostName, difficulty, createdAt }) for each
\* lobby that passes the filter
RECURSIVE AvailableOf(_)
AvailableOf(entries) ==
    IF entries = <<>> THEN <<>>
    ELSE LET lobby == Head(entries)
         IN  IF lobby.status = "waiting" /\ lobby.guestId = Null
             THEN <<[roomCode |-> lobby.roomCode, hostName |-> lobby.hostName,
                     difficulty |-> lobby.difficulty, createdAt |-> lobby.createdAt]>>
                  \o AvailableOf(Tail(entries))
             ELSE AvailableOf(Tail(entries))

\* Array.prototype.sort((a, b) => b.createdAt - a.createdAt): a stable sort,
\* larger createdAt first.
RECURSIVE SortNewestFirst(_)
SortNewestFirst(list) ==
    IF list = <<>> THEN <<>>
    ELSE LET a == Head(list)
             rest == SortNewestFirst(Tail(list))
             before == SelectSeq(rest, LAMBDA b : b.createdAt - a.createdAt > 0)
             after == SelectSeq(rest, LAMBDA b : ~(b.createdAt - a.createdAt > 0))
         IN  before \o <<a>> \o after

\* A getAvailableLobbies that does not sort.
getAvailableLobbiesUnsorted(entries) == AvailableOf(entries)

getAvailableLobbies(entries) == SortNewestFirst(AvailableOf(entries))

\* <<>> is null, <<lobby>> a lobby
getLobbyBySocketId(reg, socketId) ==
    IF ~MapHas(reg.playerToRoom, socketId) THEN <<>>
    ELSE IF MapHas(reg.lobbies, reg.playerToRoom[socketId])
         THEN <<reg.lobbies[reg.playerToRoom[socketId]]>>
         ELSE <<>>

\* A startLobbyGame without the host check.
startLobbyGameByAnyone(reg, roomCode, hostSocketId) ==
    IF ~MapHas(reg.lobbies, roomCode) THEN [reg |-> reg, lobby |-> <<>>]
    ELSE LET lobby == reg.lobbies[roomCode]
         IN  IF lobby.status # "ready" THEN [reg |-> reg, lobby |-> <<>>]
             ELSE IF lobby.guestId = Null THEN [reg |-> reg, lobby |-> <<>>]
             ELSE [reg |-> Registry([reg.lobbies EXCEPT ![roomCode].status = "playing"],
                                    reg.playerToRoom),
                   lobby |-> <<[lobby EXCEPT !.status = "playing"]>>]

startLobbyGame(reg, roomCode, hostSocketId) ==
    IF ~MapHas(reg.lobbies, roomCode) THEN [reg |-> reg, lobby |-> <<>>]
    ELSE LET lobby == reg.lobbies[roomCode]
         IN  IF lobby.hostId # hostSocketId THEN [reg |-> reg, lobby |-> <<>>]
             ELSE IF lobby.status # "ready" THEN [reg |-> reg, lobby |-> <<>>]
             ELSE IF lobby.guestId = Null THEN [reg |-> reg, lobby |-> <<>>]
             ELSE [reg |-> Registry([reg.lobbies EXCEPT ![roomCode].status = "playing"],
                                    reg.playerToRoom),
                   lobby |-> <<[lobby EXCEPT !.status = "playing"]>>]

finishLobby(reg, roomCode) ==
    IF MapHas(reg.lobbies, roomCode)
    THEN Registry([reg.lobbies EXCEPT ![roomCode].status = "finished"],
                  reg.playerToRoom)
    ELSE reg

-----------------------------------------------------------------------------
(* index.js: the Socket.IO handlers.  A handler that rejects the event      *)
(* emits an error to the sender and changes nothing.  One that accepts it   *)
(* sets `last` to the event: its name, sender and room, whether it called   *)
(* resolveRound, and the game:over messages it emitted.                     *)

Reg == Registry(lobbies, playerToRoom)

Event(op, sock, room, resolved, over) ==
    [op |-> op, sock |-> sock, room |-> room, resolved |-> resolved, over |-> over]

Rejected == UNCHANGED <<lobbies, playerToRoom, games, timers, resolutions, last>>

ResetCount(count, roomCode) ==
    IF roomCode \in DOMAIN count THEN [count EXCEPT ![roomCode] = 0] ELSE count

\* socket.on('lobby:create')
LobbyCreate(s, difficulty) ==
    \E o \in createLobby(Reg, s, PlayerName(s), difficulty) :
        IF ~o.ok THEN Rejected
        ELSE /\ lobbies' = o.reg.lobbies
             /\ playerToRoom' = o.reg.playerToRoom
             /\ last' = Event("lobby:create", s, o.roomCode, FALSE, {})
             /\ UNCHANGED <<games, timers, resolutions>>

\* socket.on('lobby:join')
LobbyJoin(s, roomCode) ==
    LET o == joinLobby(Reg, s, roomCode, PlayerName(s))
    IN  IF ~o.ok THEN Rejected
        ELSE /\ lobbies' = o.reg.lobbies
             /\ playerToRoom' = o.reg.playerToRoom
             /\ last' = Event("lobby:join", s, ToUpperCase(roomCode), FALSE, {})
             /\ UNCHANGED <<games, timers, resolutions>>

\* handlePlayerLeave(socket), for lobby:leave and for disconnect
handlePlayerLeave(s, op) ==
    LET found == getLobbyBySocketId(Reg, s)
    IN  IF found = <<>>
        THEN Rejected
        ELSE LET lobby == found[1]
                 wasHost == lobby.hostId = s
                 otherPlayerId == IF wasHost THEN lobby.guestId ELSE lobby.hostId
                 forfeit == otherPlayerId # Null /\ lobby.status = "playing"
                 o == leaveLobby(Reg, s)
             IN  /\ games' = IF forfeit THEN cleanupGame(games, lobby.roomCode)
                             ELSE games
                 /\ resolutions' = IF forfeit THEN ResetCount(resolutions, lobby.roomCode)
                                   ELSE resolutions
                 /\ lobbies' = o.reg.lobbies
                 /\ playerToRoom' = o.reg.playerToRoom
                 /\ last' = Event(op, s, lobby.roomCode, FALSE,
                                  IF forfeit
                                  THEN {[to |-> otherPlayerId,
                                         winner |-> IF wasHost THEN lobby.guestName
                                                    ELSE lobby.hostName,
                                         reason |-> "opponent_disconnected"]}
                                  ELSE {})
                 /\ UNCHANGED timers

\* socket.on('lobby:leave')
LobbyLeave(s) == handlePlayerLeave(s, "lobby:leave")

\* socket.on('disconnect')
Disconnect(s) == handlePlayerLeave(s, "disconnect")

\* socket.on('game:start')
GameStart(s, roomCode) ==
    LET o == startLobbyGame(Reg, roomCode, s)
    IN  IF o.lobby = <<>>
        THEN Rejected
        ELSE /\ lobbies' = o.reg.lobbies
             /\ playerToRoom' = o.reg.playerToRoom
             /\ games' \in initializeGame(games, roomCode, o.lobby[1])
             /\ resolutions' = ResetCount(resolutions, roomCode)
             /\ last' = Event("game:start", s, roomCode, FALSE, {})
             /\ UNCHANGED timers

\* A game-over branch that emits game:over but schedules no cleanup.
ResolvedUnscheduled(roomCode, games2, roundResult) ==
    [games |-> games2, resolved |-> TRUE, result |-> <<roundResult>>,
     over |-> IF roundResult.gameOver
              THEN {[to |-> roomCode, winner |-> roundResult.winner,
                     reason |-> "game_over"]}
              ELSE {},
     timer |-> FALSE]

\* if (roundResult.gameOver) { io.to(roomCode).emit('game:over', ...); setTimeout(...) }
Resolved(roomCode, games2, roundResult) ==
    [games |-> games2, resolved |-> TRUE, result |-> <<roundResult>>,
     over |-> IF roundResult.gameOver
              THEN {[to |-> roomCode, winner |-> roundResult.winner,
                     reason |-> "game_over"]}
              ELSE {},
     timer |-> roundResult.gameOver]

ResolvedRound(roomCode, rr) == Resolved(roomCode, rr.games, rr.result[1])

\* The part game:submit and game:skip share, after the submission was stored:
\* if (checkBothPlayersReady(roomCode)) { const roundResult = resolveRound(roomCode); ... }
AfterSubmission(gm, roomCode) ==
    IF checkBothPlayersReady(gm, roomCode)
    THEN ResolvedRound(roomCode, resolveRound(gm, roomCode))
    ELSE [games |-> gm, resolved |-> FALSE, result |-> <<>>, over |-> {},
          timer |-> FALSE]

Accepted(op, s, roomCode, o) ==
    /\ o.timer => timers[roomCode] < MaxTimers
    /\ games' = o.games
    /\ timers' = IF o.timer THEN [timers EXCEPT ![roomCode] = @ + 1] ELSE timers
    /\ resolutions' = IF o.resolved
                      THEN [resolutions EXCEPT ![roomCode] = @ + 1]
                      ELSE resolutions
    /\ last' = Event(op, s, roomCode, o.resolved, o.over)
    /\ UNCHANGED <<lobbies, playerToRoom>>

Submission(op, s, roomCode, submitted) ==
    IF ~submitted.success THEN Rejected
    ELSE Accepted(op, s, roomCode, AfterSubmission(submitted.games, roomCode))

\* socket.on('game:submit')
GameSubmit(s, roomCode, expression) ==
    Submission("game:submit", s, roomCode,
               submitPlayerExpression(games, roomCode, s, expression))

\* socket.on('game:skip')
GameSkip(s, roomCode) ==
    Submission("game:skip", s, roomCode, skipPlayerTurn(games, roomCode, s))

\* socket.on('game:nextRound')
GameNextRound(s, roomCode) ==
    LET found == getLobbyBySocketId(Reg, s)
    IN  IF found = <<>> THEN Rejected
        ELSE IF s # found[1].hostId THEN Rejected
        ELSE IF startNextRound(games, roomCode) = {} THEN Rejected
        ELSE /\ games[roomCode].round < MaxRound
             /\ games' \in startNextRound(games, roomCode)
             /\ resolutions' = ResetCount(resolutions, roomCode)
             /\ last' = Event("game:nextRound", s, roomCode, FALSE, {})
             /\ UNCHANGED <<lobbies, playerToRoom, timers>>

\* The callback of setTimeout(() => cleanupGame(roomCode), 5000)
CleanupTimer(roomCode) ==
    /\ timers[roomCode] > 0
    /\ timers' = [timers EXCEPT ![roomCode] = @ - 1]
    /\ games' = cleanupGame(games, roomCode)
    /\ resolutions' = ResetCount(resolutions, roomCode)
    /\ last' = Event("timer", "", roomCode, FALSE, {})
    /\ UNCHANGED <<lobbies, playerToRoom>>

\* The test suite ("Inicializar y forzar HP bajo"): right after initializeGame
\* it lowers player2's hp on the session object.
ForceLowHp(roomCode, hp) ==
    /\ MapHas(games, roomCode)
    /\ games[roomCode].status = "playing"
    /\ games[roomCode].round = 1
    /\ ~games[roomCode].player1.submitted /\ ~games[roomCode].player2.submitted
    /\ hp < games[roomCode].player2.hp
    /\ games' = [games EXCEPT ![roomCode].player2.hp = hp]
    /\ last' = Event("force", "", roomCode, FALSE, {})
    /\ UNCHANGED <<lobbies, playerToRoom, timers, resolutions>>

-----------------------------------------------------------------------------
(* Specifications.                                                          *)

Init ==
    /\ lobbies = EmptyMap
    /\ playerToRoom = EmptyMap
    /\ games = EmptyMap
    /\ timers = [r \in RoomCodes |-> 0]
    /\ resolutions = [r \in RoomCodes |-> 0]
    /\ last = Event("init", "", "", FALSE, {})

\* The events clients can send, from the sockets and with the difficulties given.
Events(sockets, difficulties) ==
    \/ \E s \in sockets, d \in difficulties : LobbyCreate(s, d)
    \/ \E s \in sockets, c \in PayloadCodes : LobbyJoin(s, c)
    \/ \E s \in sockets : LobbyLeave(s)
    \/ \E s \in sockets : Disconnect(s)
    \/ \E s \in sockets, c \in RoomCodes : GameStart(s, c)
    \/ \E s \in sockets, c \in RoomCodes, e \in Expressions : GameSubmit(s, c, e)
    \/ \E s \in sockets, c \in RoomCodes : GameSkip(s, c)
    \/ \E s \in sockets, c \in RoomCodes : GameNextRound(s, c)

\* The server.
Next == Events(Sockets, Difficulties)

Spec == Init /\ [][Next]_vars

\* The server driven as the test suite drives a session: two players, the
\* difficulty of the test, hp forced low after initialization so that a match
\* can end; the cleanup timers then run.
HarnessNext ==
    \/ Events(TestSockets, TestDifficulties)
    \/ \E c \in RoomCodes, hp \in ForcedHps : ForceLowHp(c, hp)
    \/ \E c \in RoomCodes : CleanupTimer(c)

HarnessSpec == Init /\ [][HarnessNext]_vars

\* The same with a third client, who can take the place of a guest who left.
RematchNext ==
    \/ Events(Sockets, TestDifficulties)
    \/ \E c \in RoomCodes, hp \in ForcedHps : ForceLowHp(c, hp)
    \/ \E c \in RoomCodes : CleanupTimer(c)

RematchSpec == Init /\ [][RematchNext]_vars

\* A scheduled timeout fires.
FairHarnessSpec == HarnessSpec /\ \A c \in RoomCodes : WF_vars(CleanupTimer(c))

\* The expressions of a duel: the session's target plus an offset, written as
\* a number (the test suite's String(target + 20)), and the broken ones.
DuelExpressions(roomCode) ==
    BrokenExpressions \cup
    (IF MapHas(games, roomCode)
     THEN {<<Num(games[roomCode].target + d)>> : d \in TargetOffsets}
     ELSE {})

\* Two players duelling at any difficulty, with submissions placed around the
\* target as the test suite places them, and hp forced low as it forces it.
DuelNext ==
    \/ \E s \in TestSockets, d \in AllDifficulties : LobbyCreate(s, d)
    \/ \E s \in TestSockets, c \in RoomCodes : LobbyJoin(s, c)
    \/ \E s \in TestSockets, c \in RoomCodes : GameStart(s, c)
    \/ \E s \in TestSockets, c \in RoomCodes :
          \E e \in DuelExpressions(c) : GameSubmit(s, c, e)
    \/ \E s \in TestSockets, c \in RoomCodes : GameSkip(s, c)
    \/ \E s \in TestSockets, c \in RoomCodes : GameNextRound(s, c)
    \/ \E c \in RoomCodes, hp \in ForcedHps : ForceLowHp(c, hp)
    \/ \E c \in RoomCodes : CleanupTimer(c)

DuelSpec == Init /\ [][DuelNext]_vars

\* What one round's generation can produce when the cards and the variable
\* values come from the rolls of the study.
DrawnDeals(difficulty) ==
    LET config == DIFFICULTY_CONFIG(difficulty)
        vc == config.variableConfig
        n == IF vc.enabled THEN vc.count ELSE 0
    IN  UNION {{[variableValues |-> vv, sharedCards |-> sc, sharedVariables |-> sv,
                 target |-> t] :
                   sv \in generateVariables(difficulty),
                   t \in generateTarget(difficulty, sc, vv)} :
               vv \in [{VariableSymbols[i] : i \in 1..n} ->
                          {randomIntAt(u, vc.valueRange.min, vc.valueRange.max) :
                              u \in DrawRolls}],
               sc \in [1..config.cardCount ->
                          {randomIntAt(u, config.cardRange.min, config.cardRange.max) :
                              u \in DrawRolls}]}

\* The lobby object the test suite hands to initializeGame.
TestLobby(roomCode, difficulty) ==
    [roomCode |-> roomCode, hostId |-> "s1", hostName |-> PlayerName("s1"),
     guestId |-> "s2", guestName |-> PlayerName("s2"), difficulty |-> difficulty]

\* initializeGame(roomCode, lobby) called as the test suite calls it, with
\* one of the deals above.
InitializeGame(roomCode, difficulty, deal) ==
    /\ games' = MapSet(games, roomCode,
                       NewGameState(roomCode, TestLobby(roomCode, difficulty), deal))
    /\ last' = Event("initializeGame", "", roomCode, FALSE, {})
    /\ UNCHANGED <<lobbies, playerToRoom, timers, resolutions>>

\* startNextRound(roomCode) with one of the deals above.
StartNextRound(roomCode, deal) ==
    /\ MapHas(games, roomCode)
    /\ games[roomCode].round < MaxRound
    /\ games' = [games EXCEPT ![roomCode] = NextRoundState(games[roomCode], deal)]
    /\ last' = Event("startNextRound", "", roomCode, FALSE, {})
    /\ UNCHANGED <<lobbies, playerToRoom, timers, resolutions>>

DrawNext ==
    \/ \E d \in DrawDifficulties : \E deal \in DrawnDeals(d) :
          InitializeGame("AAAA", d, deal)
    \/ \E d \in DrawDifficulties : \E deal \in DrawnDeals(d) :
          MapHas(games, "AAAA") /\ games["AAAA"].difficulty = d
             /\ StartNextRound("AAAA", deal)

\* The generation of a session, over more outcomes of Math.random().
DrawSpec == Init /\ [][DrawNext]_vars

\* startLobbyGame(roomCode, hostSocketId) called on the registry alone.
StartLobbyGame(s, roomCode) ==
    LET o == startLobbyGame(Reg, roomCode, s)
    IN  IF o.lobby = <<>> THEN Rejected
        ELSE /\ lobbies' = o.reg.lobbies
             /\ playerToRoom' = o.reg.playerToRoom
             /\ last' = Event("startLobbyGame", s, roomCode, FALSE, {})
             /\ UNCHANGED <<games, timers, resolutions>>

\* finishLobby(roomCode) called on the registry.
FinishLobby(roomCode) ==
    /\ MapHas(lobbies, roomCode)
    /\ lobbies' = finishLobby(Reg, roomCode).lobbies
    /\ playerToRoom' = finishLobby(Reg, roomCode).playerToRoom
    /\ last' = Event("finishLobby", "", roomCode, FALSE, {})
    /\ UNCHANGED <<games, timers, resolutions>>

\* lobbyManager.js on its own: its exported functions called in any order, as
\* the lobby tests call them.
RegistryNext ==
    \/ \E s \in Sockets, d \in Difficulties : LobbyCreate(s, d)
    \/ \E s \in Sockets, c \in PayloadCodes : LobbyJoin(s, c)
    \/ \E s \in Sockets : LobbyLeave(s)
    \/ \E s \in Sockets, c \in RoomCodes : StartLobbyGame(s, c)
    \/ \E c \in RoomCodes : FinishLobby(c)

RegistrySpec == Init /\ [][RegistryNext]_vars

-----------------------------------------------------------------------------
(* Properties.                                                              *)

\* What a player can send as a submission: an expression, or nothing (skip).
Submissions == Expressions \cup {<<>>}

Slots == {"player1", "player2"}

SubmitOps == {"game:submit", "game:skip"}
LeaveOps == {"lobby:leave", "disconnect"}

\* The slot submitPlayerExpression takes a socket for.
SlotOf(game, s) == IF game.player1.id = s THEN "player1" ELSE "player2"

\* What the game:submit handler does with the games Map: the Map it leaves and
\* what it emits.
SubmitOutcome(gm, roomCode, s, expression) ==
    IF submitPlayerExpression(gm, roomCode, s, expression).success
    THEN AfterSubmission(submitPlayerExpression(gm, roomCode, s, expression).games,
                         roomCode)
    ELSE [games |-> gm, resolved |-> FALSE, result |-> <<>>, over |-> {},
          timer |-> FALSE]

\* C1: through game:submit and game:skip, resolveRound is called exactly when
\* an accepted submission is the second of its round (the other slot had
\* already submitted), never on the first, and at most once per round.
C1_ResolveOnSecondSubmission ==
    [][\A c \in RoomCodes :
          LET accepted == /\ last'.op \in SubmitOps
                          /\ last'.room = c
                          /\ games' # games
              otherWaiting == /\ MapHas(games, c)
                              /\ \/ games[c].player1.submitted
                                 \/ games[c].player2.submitted
          IN  /\ accepted =>
                   /\ last'.resolved <=> otherWaiting
                   /\ resolutions'[c] =
                        resolutions[c] + (IF otherWaiting THEN 1 ELSE 0)
              /\ ~accepted => resolutions'[c] <= resolutions[c]
              /\ resolutions'[c] <= 1]_vars

\* A round has just been resolved by the second submission.
C1_Witness ==
    /\ last.op \in SubmitOps
    /\ last.resolved
    /\ resolutions[last.room] = 1
    /\ games[last.room].status = "waiting_next"

\* C2: after an accepted game:nextRound on a session in waiting_next, the
\* session is playing again, its round is one higher and both players'
\* submitted flags, expressions and results are cleared.
C2_NextRoundReturnsToPlaying ==
    [][\A c \in RoomCodes :
          (/\ last'.op = "game:nextRound"
           /\ last'.room = c
           /\ games' # games
           /\ MapHas(games, c)
           /\ games[c].status = "waiting_next")
          => /\ games'[c].status = "playing"
             /\ games'[c].round = games[c].round + 1
             /\ \A slot \in Slots :
                   /\ ~games'[c][slot].submitted
                   /\ games'[c][slot].expression = <<>>
                   /\ games'[c][slot].result = NullResult]_vars

\* C3: while a player's submission of the round is stored, every further
\* submit or skip by that player is rejected and changes nothing.
C3_SecondSubmissionRejected ==
    \A c \in DOMAIN games : \A s \in Sockets :
        games[c][SlotOf(games[c], s)].submitted =>
            /\ \A e \in Submissions :
                  /\ ~submitPlayerExpression(games, c, s, e).success
                  /\ submitPlayerExpression(games, c, s, e).games = games
            /\ ~skipPlayerTurn(games, c, s).success
            /\ skipPlayerTurn(games, c, s).games = games

\* The host has submitted, the round is still open, and a second submission
\* of theirs gets the "already submitted" error.
C3_Witness ==
    \E c \in DOMAIN games :
        /\ games[c].status = "playing"
        /\ games[c].player1.submitted
        /\ last.op = "game:submit"
        /\ last.sock = games[c].player1.id
        /\ \E e \in Expressions :
              /\ e # games[c].player1.expression
              /\ submitPlayerExpression(games, c, last.sock, e).error
                   = ErrAlreadySubmitted

\* C4: resolveRound on a session whose round is already resolved
\* (waiting_next or finished) changes neither player's HP.
C4_ResolveTwiceKeepsHp ==
    \A c \in DOMAIN games :
        games[c].status \in {"waiting_next", "finished"} =>
            /\ resolveRound(games, c).games[c].player1.hp = games[c].player1.hp
            /\ resolveRound(games, c).games[c].player2.hp = games[c].player2.hp

\* C5: a next-round request changes a session only if its sender is the host
\* of the lobby of that session's room.
C5_OnlyOwningHostAdvances ==
    last.op = "game:nextRound" =>
        /\ MapHas(lobbies, last.room)
        /\ lobbies[last.room].hostId = last.sock

\* The two players' submissions handled in the order given.
InOrder(c, first, eFirst, second, eSecond) ==
    SubmitOutcome(SubmitOutcome(games, c, first, eFirst).games, c, second, eSecond)

\* A round of the session in room c is open and nobody has submitted.
OpenRound(c) ==
    /\ MapHas(games, c)
    /\ games[c].status = "playing"
    /\ ~games[c].player1.submitted
    /\ ~games[c].player2.submitted

\* C6: for any two submissions eA and eB of the two players, handling A's
\* before B's or B's before A's leaves the same session (HPs, status) and
\* emits the same round result (round winner, game-over flag, winner).
C6_SubmissionsCommute ==
    \A c \in RoomCodes :
        OpenRound(c) =>
            \A eA \in Submissions, eB \in Submissions :
                InOrder(c, games[c].player1.id, eA, games[c].player2.id, eB)
                  = InOrder(c, games[c].player2.id, eB, games[c].player1.id, eA)

\* An open round with a player at low HP, and two different submissions that
\* end the match.
C6_Witness ==
    \E c \in RoomCodes :
        /\ OpenRound(c)
        /\ \E eA \in Submissions, eB \in Submissions :
              /\ eA # eB
              /\ InOrder(c, games[c].player1.id, eA, games[c].player2.id, eB).resolved
              /\ InOrder(c, games[c].player1.id, eA,
                         games[c].player2.id, eB).result[1].gameOver

\* The lobby a socket is in has a session whose status is one of those given.
InSession(s, statuses) ==
    /\ getLobbyBySocketId(Reg, s) # <<>>
    /\ MapHas(games, getLobbyBySocketId(Reg, s)[1].roomCode)
    /\ games[getLobbyBySocketId(Reg, s)[1].roomCode].status \in statuses

\* The game:over message a leave of s sends to the player who remains.
Forfeit(lobby, s) ==
    [to |-> IF lobby.hostId = s THEN lobby.guestId ELSE lobby.hostId,
     winner |-> IF lobby.hostId = s THEN lobby.guestName ELSE lobby.hostName,
     reason |-> "opponent_disconnected"]

\* C7: when a player leaves or disconnects while a session of their room is
\* playing, revealing or waiting_next, that step announces the remaining
\* player as the winner and removes the session.
C7_LeaveForfeits ==
    [][\A s \in Sockets :
          (/\ InSession(s, {"playing", "revealing", "waiting_next"})
           /\ (LobbyLeave(s) \/ Disconnect(s)))
          => /\ ~MapHas(games', getLobbyBySocketId(Reg, s)[1].roomCode)
             /\ last'.over = {Forfeit(getLobbyBySocketId(Reg, s)[1], s)}]_vars

\* A leave has just ended a session by forfeit.
C7_Witness ==
    /\ last.op \in LeaveOps
    /\ last.over # {}
    /\ ~MapHas(games, last.room)

\* C8: when the host leaves, whatever the lobby's status, the lobby is
\* removed, the host and the guest (if any) belong to no room, and the
\* session of the room is removed.
C8_HostLeaveRemovesLobby ==
    [][\A s \in Sockets :
          (/\ getLobbyBySocketId(Reg, s) # <<>>
           /\ getLobbyBySocketId(Reg, s)[1].hostId = s
           /\ (LobbyLeave(s) \/ Disconnect(s)))
          => LET lobby == getLobbyBySocketId(Reg, s)[1]
                 members == {lobby.hostId, lobby.guestId} \ {Null}
             IN  /\ ~MapHas(lobbies', lobby.roomCode)
                 /\ ~MapHas(games', lobby.roomCode)
                 /\ \A m \in members :
                       /\ ~MapHas(playerToRoom', m)
                       /\ getLobbyBySocketId(Registry(lobbies', playerToRoom'), m)
                            = <<>>]_vars

\* A host has just left a lobby that had a guest and a session.
C8_Witness ==
    /\ last.op \in LeaveOps
    /\ ~MapHas(lobbies, last.room)
    /\ \E m \in last.over : m.to # last.sock

\* A round of room c has just resolved with gameOver.
NaturalEnd(c) ==
    /\ last.op \in SubmitOps
    /\ last.room = c
    /\ last.over # {}

\* C9: when a round resolves with gameOver, the lobby of the room is
\* eventually removed from the registry.
C9_LobbyDestroyedAfterGameOver ==
    \A c \in RoomCodes : NaturalEnd(c) ~> ~MapHas(lobbies, c)

\* A round of room c has just resolved and left a player without HP.
ZeroHp(c) ==
    /\ last.resolved
    /\ last.room = c
    /\ MapHas(games, c)
    /\ \/ games[c].player1.hp = 0
       \/ games[c].player2.hp = 0

\* C10: when a round resolution brings a player's HP to zero, the session
\* of the room is eventually removed (the cleanup timer fires).
C10_SessionRemovedAfterZeroHp ==
    \A c \in RoomCodes : ZeroHp(c) ~> ~MapHas(games, c)

\* A round has just resolved with a player at zero HP; the session is still there.
C10_Witness ==
    \E c \in RoomCodes : ZeroHp(c) /\ games[c].status = "finished"

\* C11: in every session, each player's hp is at least 0 and at most maxHp, and
\* maxHp is the starting hp of the session's difficulty.
C11_HpWithinBounds ==
    \A c \in DOMAIN games : \A slot \in Slots :
        /\ 0 <= games[c][slot].hp
        /\ games[c][slot].hp <= games[c][slot].maxHp
        /\ games[c][slot].maxHp = DIFFICULTY_CONFIG(games[c].difficulty).playerHp

\* A round was resolved whose damage exceeded the hp a player had left.
C11_Witness ==
    /\ last.resolved
    /\ MapHas(games, last.room)
    /\ \E slot \in Slots : games[last.room][slot].hp = 0

\* a / b, taken only "if (b !== 0 && a % b === 0)"
ExactQuotient(a, b) ==
    IF b # 0 /\ Abs(a) % Abs(b) = 0
    THEN {Sign(a) * Sign(b) * (Abs(a) \div Abs(b))}
    ELSE {}

\* nextSteps for the pair a, b under an operator set
NextSteps(a, b, operators) ==
    (IF "+" \in operators THEN {a + b} ELSE {}) \cup
    (IF "-" \in operators THEN {a - b} ELSE {}) \cup
    (IF "*" \in operators THEN {a * b} ELSE {}) \cup
    (IF "/" \in operators THEN ExactQuotient(a, b) ELSE {})

\* currentNumbers.filter((_, idx) => idx !== i && idx !== j)
Remaining(currentNumbers, i, j) ==
    SelectSeq([k \in 1..Len(currentNumbers) |->
                  IF k = i \/ k = j THEN <<>> ELSE <<currentNumbers[k]>>],
              LAMBDA x : x # <<>>)

RECURSIVE explore(_, _)
\* The values the recursive exploration records for currentNumbers: every
\* number's absolute value, then every pair combined and explored again.
explore(currentNumbers, operators) ==
    {Abs(currentNumbers[k]) : k \in 1..Len(currentNumbers)} \cup
    (IF Len(currentNumbers) <= 1 THEN {}
     ELSE UNION {UNION {explore(<<res>> \o [k \in 1..(Len(currentNumbers) - 2) |->
                                              Remaining(currentNumbers, i, j)[k][1]],
                                operators) :
                           res \in NextSteps(currentNumbers[i], currentNumbers[j],
                                             operators)} :
                   <<i, j>> \in {p \in (1..Len(currentNumbers)) \X
                                       (1..Len(currentNumbers)) : p[1] # p[2]}})

\* [...Object.values(variableValues)], in the order of the symbols
ValuesOf(variableValues) ==
    SelectSeq([k \in 1..Len(VariableSymbols) |->
                  IF VariableSymbols[k] \in DOMAIN variableValues
                  THEN <<variableValues[VariableSymbols[k]]>> ELSE <<>>],
              LAMBDA x : x # <<>>)

\* What can be reached from a session's shared cards and variable values, each
\* used at most once, with the operators of the session's difficulty.
Reachable(game) ==
    explore(game.sharedCards \o
                [k \in 1..Len(ValuesOf(game.variableValues)) |->
                    ValuesOf(game.variableValues)[k][1]],
            DIFFICULTY_CONFIG(game.difficulty).operatorSymbols)

\* C12: the target of every session is reachable from the session's shared
\* cards and variable values, each used at most once, with the operators of the
\* session's difficulty.
C12_TargetReachable ==
    \A c \in DOMAIN games : games[c].target \in Reachable(games[c])

\* C13: when the room code has no session, or its session is not in status
\* playing, submitPlayerExpression returns an error result (success false, with
\* the message of the case) and leaves every session as it was.
C13_SubmitRejectedOutsidePlaying ==
    \A c \in RoomCodes, s \in Sockets, e \in Submissions :
        LET o == submitPlayerExpression(games, c, s, e)
        IN  /\ ~MapHas(games, c) =>
                  ~o.success /\ o.error = ErrNoGame /\ o.games = games
            /\ MapHas(games, c) /\ games[c].status # "playing" =>
                  ~o.success /\ o.error = ErrNotPlaying /\ o.games = games

\* One room's session is finished, the other room has none, and a submit to
\* either is turned down.
C13_Witness ==
    \E c, d \in RoomCodes :
        /\ MapHas(games, c) /\ games[c].status = "finished"
        /\ ~MapHas(games, d)
        /\ \A s \in TestSockets :
              /\ submitPlayerExpression(games, c, s, <<>>).error = ErrNotPlaying
              /\ submitPlayerExpression(games, d, s, <<>>).error = ErrNoGame

\* C14: a submit that a player of a session sent while round r was current and
\* that the server handles right after the host's game:nextRound took the
\* session to round r + 1 is not recorded: submitPlayerExpression turns it down.
C14_NoStaleSubmission ==
    [][\A c \in RoomCodes :
          (/\ last'.op = "game:nextRound" /\ last'.room = c
           /\ MapHas(games, c) /\ MapHas(games', c)
           /\ games'[c].round = games[c].round + 1)
          => \A slot \in Slots, e \in Submissions :
                ~submitPlayerExpression(games', c, games[c][slot].id, e).success]_vars

\* The session of room c with other values stored as one player's expression
\* and result.
WithStored(gm, c, slot, expression) ==
    [gm EXCEPT ![c][slot].expression = expression,
               ![c][slot].result = evaluateExpression(expression,
                                                      gm[c].variableValues)]

Opponent(slot) == IF slot = "player1" THEN "player2" ELSE "player1"

\* C15: while a round is open (status playing), the view getGameState gives a
\* player is the same whatever expression and result are stored for the
\* opponent: it depends on the opponent through name, hp, maxHp and submitted only.
C15_ViewHidesOpponentAnswer ==
    \A c \in DOMAIN games :
        games[c].status = "playing" =>
            \A slot \in Slots, e \in DuelExpressions(c) \cup {<<>>} :
                getGameState(WithStored(games, c, Opponent(slot), e), c,
                             games[c][slot].id)
                    = getGameState(games, c, games[c][slot].id)

\* A round is open, a player's opponent has an answer with a value stored, and
\* the player's view reports the opponent as submitted.
C15_Witness ==
    \E c \in DOMAIN games, slot \in Slots :
        /\ games[c].status = "playing"
        /\ ~games[c][slot].submitted
        /\ games[c][Opponent(slot)].submitted
        /\ games[c][Opponent(slot)].result # NullResult
        /\ getGameState(games, c, games[c][slot].id)[1].opponentSubmitted

\* The slots whose submission would close the round of session c: the round is
\* open, the slot has not submitted and the other one has.
Closers(c) ==
    {slot \in Slots :
        /\ MapHas(games, c) /\ games[c].status = "playing"
        /\ ~games[c][slot].submitted /\ games[c][Opponent(slot)].submitted}

\* What the closing player can send.
ClosingSubmissions(c) == DuelExpressions(c) \cup {<<>>}

\* The games Map once the closing submission is stored: both answers are in,
\* and the handler calls resolveRound on it.
Closed(c, slot, e) == submitPlayerExpression(games, c, games[c][slot].id, e).games

\* P holds of every round a submission can close in the current state.
EveryClosedRound(P(_, _)) ==
    \A c \in RoomCodes : \A slot \in Closers(c) : \A e \in ClosingSubmissions(c) :
        P(Closed(c, slot, e), c)

\* P holds of some round a submission can close in the current state.
SomeClosedRound(P(_, _)) ==
    \E c \in RoomCodes : \E slot \in Closers(c) : \E e \in ClosingSubmissions(c) :
        P(Closed(c, slot, e), c)

\* A player's answer as calculateDamage scores it, and its distance to the target.
Scored(gm, c, slot) ==
    calculateDamage(gm[c][slot].result, gm[c].target, gm[c].difficulty)

Distance(gm, c, slot) == Difference(gm[c][slot].result, gm[c].target)

BothMiss(gm, c) == Scored(gm, c, "player1").isMiss /\ Scored(gm, c, "player2").isMiss

\* slot's distance is strictly smaller than the other player's
Closer(gm, c, slot) ==
    DiffLess(Distance(gm, c, slot), Distance(gm, c, Opponent(slot)))

\* What resolveRound returns, and the session it leaves.
RoundResult(gm, c) == resolveRound(gm, c).result[1]

SessionAfter(gm, c) == resolveRound(gm, c).games[c]

C16_Case(gm, c) ==
    \A w \in Slots :
        Closer(gm, c, w) /\ ~BothMiss(gm, c) =>
            /\ RoundResult(gm, c).roundWinner = gm[c][w].name
            /\ RoundResult(gm, c)[Opponent(w)].damageTaken = Scored(gm, c, w).damage
            /\ RoundResult(gm, c)[Opponent(w)].damageTaken > 0
            /\ RoundResult(gm, c)[w].damageTaken = 0

\* C16: in resolveRound, when the distances differ and not both results are
\* misses, the player strictly closer to the target is the round winner, the
\* other player's damageTaken is the damage computed for the winner's result
\* and is positive, and the winner's damageTaken is 0.
C16_CloserPlayerWins == EveryClosedRound(C16_Case)

C16_WitnessCase(gm, c) ==
    /\ Closer(gm, c, "player2")
    /\ Scored(gm, c, "player1").type = "close"
    /\ Scored(gm, c, "player2").type = "ok"
    /\ RoundResult(gm, c).roundWinner = gm[c].player2.name
    /\ RoundResult(gm, c).player1.damageTaken = 20
    /\ RoundResult(gm, c).player2.damageTaken = 0

\* A round about to be closed in which player2 is closer than player1, neither
\* misses (ok against close), and player2 wins and deals the damage of an ok.
C16_Witness == SomeClosedRound(C16_WitnessCase)

Unhurt(gm, c, slot) ==
    /\ RoundResult(gm, c)[slot].damageTaken = 0
    /\ RoundResult(gm, c)[slot].currentHp = gm[c][slot].hp
    /\ SessionAfter(gm, c)[slot].hp = gm[c][slot].hp

C17_Case(gm, c) ==
    BothMiss(gm, c) =>
        /\ RoundResult(gm, c).roundWinner \in {"draw", "draw_miss"}
        /\ Unhurt(gm, c, "player1") /\ Unhurt(gm, c, "player2")
        /\ ~RoundResult(gm, c).gameOver

\* C17: in resolveRound, when both results are misses (at or beyond the miss
\* threshold, or no valid result), the round is a draw, no player takes damage,
\* no hp changes and the match goes on.
C17_BothMissDraw == EveryClosedRound(C17_Case)

C17_WitnessCase(gm, c) ==
    /\ BothMiss(gm, c)
    /\ gm[c].player1.result = NullResult /\ gm[c].player2.result # NullResult
    /\ Distance(gm, c, "player2") = Whole(DIFFICULTY_CONFIG(gm[c].difficulty).
                                              accuracyThresholds.miss)
    /\ RoundResult(gm, c).roundWinner = "draw_miss"

\* A round about to be closed in which player1 has no valid result and player2's
\* result lies exactly at the miss threshold.
C17_Witness == SomeClosedRound(C17_WitnessCase)

C18_Case(gm, c) ==
    Distance(gm, c, "player1") = Distance(gm, c, "player2") /\ ~BothMiss(gm, c) =>
        /\ RoundResult(gm, c).roundWinner = "draw"
        /\ \A slot \in Slots :
              /\ RoundResult(gm, c)[slot].damageTaken =
                     Scored(gm, c, Opponent(slot)).damage \div 2
              /\ SessionAfter(gm, c)[slot].hp =
                     Max2(0, gm[c][slot].hp - Scored(gm, c, Opponent(slot)).damage \div 2)
        /\ RoundResult(gm, c).gameOver =>
              \E slot \in Slots : SessionAfter(gm, c)[slot].hp = 0

\* C18: in resolveRound, when both distances are equal and not both results
\* are misses, roundWinner is 'draw', each player takes half (rounded down) of
\* the damage computed for the other's result, and the match is over only if a
\* player's hp reached 0.
C18_TieHalvesDamage == EveryClosedRound(C18_Case)

C18_WitnessCase(gm, c) ==
    /\ Distance(gm, c, "player1") = Distance(gm, c, "player2")
    /\ gm[c].player1.result # gm[c].player2.result
    /\ ~BothMiss(gm, c)
    /\ RoundResult(gm, c).roundWinner = "draw"
    /\ RoundResult(gm, c).gameOver

\* A round about to be closed in which the two results differ, lie at the same
\* distance on either side of the target, and the halved damage ends the match.
C18_Witness == SomeClosedRound(C18_WitnessCase)

\* Submissions with no valid result: nothing, or a broken expression.
Unscorable == BrokenExpressions \cup {<<>>}

C19_Case(gm, c) ==
    \A b \in Slots :
        gm[c][b].expression \in Unscorable =>
            /\ gm[c][b].result = NullResult
            /\ Scored(gm, c, b).isMiss /\ Scored(gm, c, b).damage = 0
            /\ RoundResult(gm, c)[b].damageType = "miss"
            /\ RoundResult(gm, c)[Opponent(b)].damageTaken = 0
            /\ ~Scored(gm, c, Opponent(b)).isMiss =>
                  /\ RoundResult(gm, c).roundWinner = gm[c][Opponent(b)].name
                  /\ RoundResult(gm, c)[b].damageTaken =
                         Scored(gm, c, Opponent(b)).damage
                  /\ RoundResult(gm, c)[b].damageTaken > 0

\* C19: a submission that is empty, malformed or evaluates to a non-finite value
\* is stored with a null result and scored as a miss: its sender deals 0 damage,
\* and an opponent whose result is not a miss wins the round and deals the full
\* damage computed for that result.
C19_BrokenSubmissionIsMiss == EveryClosedRound(C19_Case)

C19_WitnessCase(gm, c) ==
    /\ gm[c].player1.expression = <<Num(7), Sym("/"), Num(0)>>
    /\ gm[c].player1.result = NullResult
    /\ Scored(gm, c, "player2").type = "perfect"
    /\ RoundResult(gm, c).roundWinner = gm[c].player2.name
    /\ RoundResult(gm, c).player1.damageType = "miss"
    /\ RoundResult(gm, c).player1.damageTaken = 50
    /\ RoundResult(gm, c).player2.damageTaken = 0

\* A round about to be closed in which player1 sent 7/0 and player2 hits the
\* target: player2 wins and player1 takes the damage of a perfect answer.
C19_Witness == SomeClosedRound(C19_WitnessCase)

\* The hp a player can enter a round with: the one the session holds, or one
\* the test suite forces.
HpLevels(gm, c, slot) == {gm[c][slot].hp} \cup ForcedHps

WithHp(gm, c, hp1, hp2) ==
    [gm EXCEPT ![c].player1.hp = hp1, ![c].player2.hp = hp2]

\* game: the session with both answers in; rr, after: what resolveRound
\* returns for it and the session it leaves.
C20_After(game, rr, after) ==
    /\ rr.gameOver <=> (after.player1.hp = 0 \/ after.player2.hp = 0)
    /\ \A slot \in Slots : rr[slot].currentHp = after[slot].hp
    /\ \A slot \in Slots :
          after[slot].hp = 0 /\ after[Opponent(slot)].hp # 0
              => rr.winner = game[Opponent(slot)].name
    /\ after.player1.hp = 0 /\ after.player2.hp = 0 => rr.winner = "draw"
    /\ after.status = "finished" <=> rr.gameOver

C20_Resolved(game, c, o) == C20_After(game, o.result[1], o.games[c])

C20_Case(gm, c) ==
    \A hp1 \in HpLevels(gm, c, "player1"), hp2 \in HpLevels(gm, c, "player2") :
        C20_Resolved(gm[c], c, resolveRound(WithHp(gm, c, hp1, hp2), c))

\* C20: after resolveRound, gameOver is true exactly when some player's hp is
\* 0; the winner is the other player when exactly one hp is 0 and 'draw' when
\* both are; the status is finished exactly when gameOver is true.  Checked on
\* every round that can be closed, with the hp the session holds and with the
\* forced ones on either side.
C20_GameOverAtZeroHp == EveryClosedRound(C20_Case)

C20_WitnessCase(gm, c) ==
    /\ RoundResult(gm, c).gameOver
    /\ RoundResult(gm, c).winner = gm[c].player1.name
    /\ SessionAfter(gm, c).player2.hp = 0
    /\ SessionAfter(gm, c).player1.hp = gm[c].player1.maxHp
    /\ SessionAfter(gm, c).status = "finished"

\* A round about to be closed in which player1 wins and the damage takes
\* player2's forced hp to 0: the match ends with player1 the winner.
C20_Witness == SomeClosedRound(C20_WitnessCase)

\* What joinLobby gives socket s for the room code it sends.
JoinOutcome(s, c) == joinLobby(Reg, s, c, PlayerName(s))

\* The three failures of joinLobby, in the order it checks them, and the
\* registry left as it was by every failure.
JoinErrors(s, c) ==
    LET code == ToUpperCase(c)
    IN  /\ ~MapHas(lobbies, code) =>
              ~JoinOutcome(s, c).ok /\ JoinOutcome(s, c).error = ErrNotFound
        /\ MapHas(lobbies, code) /\ lobbies[code].guestId # Null =>
              ~JoinOutcome(s, c).ok /\ JoinOutcome(s, c).error = ErrFull
        /\ (/\ MapHas(lobbies, code) /\ lobbies[code].guestId = Null
            /\ lobbies[code].status # "waiting") =>
              ~JoinOutcome(s, c).ok /\ JoinOutcome(s, c).error = ErrUnavailable
        /\ ~JoinOutcome(s, c).ok => JoinOutcome(s, c).reg = Reg

\* C21 as stated: for every caller and room code, joinLobby fails with 'not
\* found' for an unknown code, 'full' when a guest is present, 'unavailable'
\* when the status is not waiting, and a failure leaves the registry unchanged.
C21_JoinErrors ==
    \A s \in Sockets, c \in PayloadCodes : JoinErrors(s, c)

\* C21, amended: the three failures are those of a caller who is in no room; a
\* caller who is in a room gets the 'already in a room' error whatever the code;
\* every failure leaves the lobbies and the player-to-room index unchanged.
C21_JoinErrorsOfFreeCaller ==
    \A s \in Sockets, c \in PayloadCodes :
        /\ ~MapHas(playerToRoom, s) => JoinErrors(s, c)
        /\ MapHas(playerToRoom, s) =>
              /\ ~JoinOutcome(s, c).ok /\ JoinOutcome(s, c).error = ErrInRoom
              /\ JoinOutcome(s, c).reg = Reg

\* A caller in no room faces a lobby that has no guest and is not waiting (it
\* was finished), and a code no lobby has: joinLobby answers 'unavailable' to
\* the first and 'not found' to the second.
C21_Witness ==
    \E s \in Sockets, c, d \in RoomCodes :
        /\ ~MapHas(playerToRoom, s)
        /\ ~MapHas(lobbies, c)
        /\ JoinOutcome(s, c).error = ErrNotFound
        /\ MapHas(lobbies, d) /\ lobbies[d].guestId = Null
        /\ lobbies[d].status # "waiting"
        /\ JoinOutcome(s, d).error = ErrUnavailable

\* s may start the lobby of room c: it is that lobby's host, the status is
\* ready and a guest is present.
MayStart(s, c) ==
    /\ MapHas(lobbies, c)
    /\ lobbies[c].hostId = s
    /\ lobbies[c].status = "ready"
    /\ lobbies[c].guestId # Null

\* startLobbyGame answers a requester who may start with the lobby, now playing
\* and otherwise as it was, and every other requester with null and the
\* registry untouched.
StartAnswer(s, c) ==
    LET o == startLobbyGame(Reg, c, s)
    IN  IF MayStart(s, c)
        THEN /\ o.lobby = <<[lobbies[c] EXCEPT !.status = "playing"]>>
             /\ o.reg = Registry([lobbies EXCEPT ![c].status = "playing"], playerToRoom)
        ELSE o.lobby = <<>> /\ o.reg = Reg

\* C22: startLobbyGame moves a lobby to playing only for the lobby's host, with
\* status ready and a guest present, and rejects every other request without
\* changing the registry; in a step of the server a lobby becomes playing, or a
\* room gets a session it did not have, only through an accepted game:start of
\* a requester who may start it.
C22_OnlyReadyHostStarts ==
    [][/\ \A s \in Sockets, c \in RoomCodes : StartAnswer(s, c)
       /\ \A c \in RoomCodes :
             (\/ /\ MapHas(lobbies', c) /\ lobbies'[c].status = "playing"
                 /\ ~(MapHas(lobbies, c) /\ lobbies[c].status = "playing")
              \/ MapHas(games', c) /\ ~MapHas(games, c))
             => /\ last'.op = "game:start" /\ last'.room = c
                /\ MayStart(last'.sock, c)
                /\ lobbies' = [lobbies EXCEPT ![c].status = "playing"]
                /\ playerToRoom' = playerToRoom
                /\ MapHas(games', c)]_vars

\* A game was started by its host, while the host of another lobby, still
\* waiting for a guest, is turned down by startLobbyGame.
C22_Witness ==
    /\ last.op = "game:start"
    /\ MapHas(lobbies, last.room) /\ lobbies[last.room].status = "playing"
    /\ lobbies[last.room].hostId = last.sock
    /\ MapHas(games, last.room)
    /\ \E c \in RoomCodes \ {last.room} :
          /\ MapHas(lobbies, c) /\ lobbies[c].status = "waiting"
          /\ startLobbyGame(Reg, c, lobbies[c].hostId).lobby = <<>>

\* The rooms whose lobby has s as host or as guest.
RoomsOf(s) ==
    {c \in DOMAIN lobbies : lobbies[c].hostId = s \/ lobbies[c].guestId = s}

\* C23: a caller who is host or guest of a lobby is refused by createLobby,
\* with the "already in a room" error and the registry left as it was, and no
\* player is host or guest of more than one lobby.
C23_OneRoomPerPlayer ==
    \A s \in Sockets :
        /\ Cardinality(RoomsOf(s)) <= 1
        /\ RoomsOf(s) # {} =>
              \A d \in Difficulties :
                  createLobby(Reg, s, PlayerName(s), d) =
                      {[reg |-> Reg, ok |-> FALSE, error |-> ErrInRoom, roomCode |-> ""]}

\* A host and a guest share one lobby while a room code is still free, and the
\* last accepted event is the creation of another lobby by a third player.
C23_Witness ==
    /\ last.op = "lobby:create"
    /\ \E c \in RoomCodes \ {last.room} :
          /\ MapHas(lobbies, c)
          /\ lobbies[c].guestId # Null
          /\ RoomsOf(lobbies[c].guestId) = {c}
          /\ RoomsOf(lobbies[c].hostId) = {c}
    /\ RoomsOf(last.sock) = {last.room}

\* The step is the departure of the guest of room c.
GuestLeaves(c) ==
    /\ MapHas(lobbies, c)
    /\ lobbies[c].guestId # Null
    /\ lobbies[c].status \in {"ready", "playing"}
    /\ last'.op \in LeaveOps
    /\ last'.room = c
    /\ last'.sock = lobbies[c].guestId

\* C24: when the guest of a ready or playing lobby leaves, the lobby keeps its
\* room code, host and difficulty, its guest slot is emptied and its status is
\* waiting, every other lobby is as it was, only the guest's playerToRoom
\* entry goes, and every socket outside a room can join the lobby again.
C24_GuestLeaveReopensLobby ==
    [][\A c \in RoomCodes :
          GuestLeaves(c) =>
             /\ lobbies' = [lobbies EXCEPT ![c] = [@ EXCEPT !.guestId = Null,
                                                            !.guestName = Null,
                                                            !.status = "waiting"]]
             /\ playerToRoom' = MapDelete(playerToRoom, lobbies[c].guestId)
             /\ \A t \in Sockets :
                   ~MapHas(playerToRoom', t) =>
                       LET o == joinLobby(Registry(lobbies', playerToRoom'), t, c,
                                          PlayerName(t))
                       IN  /\ o.ok
                           /\ o.reg.lobbies[c].guestId = t
                           /\ o.reg.lobbies[c].status = "ready"]_vars

\* The guest has just left a lobby whose game was on: the lobby waits, with
\* its host, for a guest.
C24_Witness ==
    /\ last.op \in LeaveOps
    /\ MapHas(lobbies, last.room)
    /\ lobbies[last.room].hostId # last.sock
    /\ lobbies[last.room].guestId = Null
    /\ lobbies[last.room].status = "waiting"
    /\ last.over # {}

\* The step is an accepted lobby:create.
LobbyCreated ==
    /\ last'.op = "lobby:create"
    /\ lobbies' # lobbies

\* C25: the room code of a lobby that createLobby has just registered is 4
\* characters long and was the code of no registered lobby; the lobbies that
\* were registered are as they were, and every registered lobby is stored
\* under its own room code, so that no two of them share one.
C25_FreshFourCharacterCode ==
    [][LobbyCreated =>
          /\ Len(last'.room) = 4
          /\ ~MapHas(lobbies, last'.room)
          /\ MapHas(lobbies', last'.room)
          /\ \A c \in DOMAIN lobbies : MapHas(lobbies', c) /\ lobbies'[c] = lobbies[c]
          /\ \A c \in DOMAIN lobbies' : lobbies'[c].roomCode = c /\ Len(c) = 4]_vars

\* A lobby has just been created while another one was registered, under a
\* different code.
C25_Witness ==
    /\ last.op = "lobby:create"
    /\ MapHas(lobbies, last.room)
    /\ lobbies[last.room].hostId = last.sock
    /\ \E c \in DOMAIN lobbies : c # last.room /\ lobbies[c].hostId # last.sock

\* Date.now() readings given to the lobbies (two lobbies can share one).
Stamps == 1..2

\* The orders in which a Map can hold the keys of lm.
MapOrders(lm) ==
    {order \in [1..Cardinality(DOMAIN lm) -> DOMAIN lm] :
        \A i, j \in DOMAIN order : i # j => order[i] # order[j]}

\* The registered lobbies that wait with an empty guest slot.
Joinable == {c \in DOMAIN lobbies : lobbies[c].status = "waiting" /\ lobbies[c].guestId = Null}

\* out lists the joinable lobbies, once each, newest first.
ListsJoinable(out, at) ==
    /\ Len(out) = Cardinality(Joinable)
    /\ {out[i].roomCode : i \in DOMAIN out} = Joinable
    /\ \A i \in DOMAIN out :
          out[i] = [roomCode |-> out[i].roomCode,
                    hostName |-> lobbies[out[i].roomCode].hostName,
                    difficulty |-> lobbies[out[i].roomCode].difficulty,
                    createdAt |-> at[out[i].roomCode]]
    /\ \A i, j \in DOMAIN out : i < j => out[i].createdAt >= out[j].createdAt

\* C26: whatever the creation times of the registered lobbies and the order
\* the Map holds them in, getAvailableLobbies returns exactly the lobbies whose
\* status is waiting and whose guest slot is empty, each once, with its room
\* code, host name, difficulty and creation time, in non-increasing order of
\* creation time.
C26_AvailableLobbiesNewestFirst ==
    \A order \in MapOrders(lobbies), at \in [DOMAIN lobbies -> Stamps] :
        ListsJoinable(getAvailableLobbies(Stamped(lobbies, order, at)), at)

\* Two lobbies wait for a guest, the Map holds the older one first, and the
\* list names the newer one first.
C26_Witness ==
    \E c, d \in Joinable :
        /\ c # d
        /\ LET at == [x \in DOMAIN lobbies |-> IF x = d THEN 2 ELSE 1]
               out == getAvailableLobbies(Stamped(lobbies, <<c, d>>, at))
           IN  Len(out) = 2 /\ out[1].roomCode = d /\ out[2].roomCode = c

\* A lobby with a guest, or one whose game is on or over, is registered and
\* is missing from the list.
C26_WitnessExcluded ==
    \E c \in DOMAIN lobbies :
        /\ c \notin Joinable
        /\ \A order \in MapOrders(lobbies), at \in [DOMAIN lobbies -> Stamps] :
              \A i \in DOMAIN getAvailableLobbies(Stamped(lobbies, order, at)) :
                  getAvailableLobbies(Stamped(lobbies, order, at))[i].roomCode # c

-----------------------------------------------------------------------------
(* src/utils/gameLogic.js, the client's game logic: the target generator    *)
(* and the solver.  Expression strings are token sequences, as above.       *)

\* DIFFICULTY_CONFIG[difficulty].targetRange of the client
ClientTargetRange(difficulty) ==
    CASE difficulty = "easy" -> [min |-> 10, max |-> 30]
      [] difficulty = "medium" -> [min |-> 15, max |-> 50]
      [] OTHER -> [min |-> 80, max |-> 200]

\* The operations explore tries: + and -, and * and exact / when
\* difficulty !== 'easy'.
ClientOperators(difficulty) ==
    IF difficulty # "easy" THEN {"+", "-", "*", "/"} ELSE {"+", "-"}

\* [...cards, ...Object.values(variableValues)]
AllNumbers(cards, variableValues) ==
    cards \o [k \in 1..Len(ValuesOf(variableValues)) |-> ValuesOf(variableValues)[k][1]]

\* The k-th pair (i, j), i # j, of the double loop over n positions.
PairAt(n, k) ==
    LET i == ((k - 1) \div (n - 1)) + 1
        r == ((k - 1) % (n - 1)) + 1
    IN  <<i, IF r < i THEN r ELSE r + 1>>

RECURSIVE Flatten(_)
Flatten(seqs) == IF seqs = <<>> THEN <<>> ELSE Head(seqs) \o Flatten(Tail(seqs))

\* currentItems.filter((_, idx) => idx !== i && idx !== j)
RemainingItems(currentItems, i, j) ==
    LET kept == Remaining(currentItems, i, j)
    IN  [k \in 1..Len(kept) |-> kept[k][1]]

\* wrap(item, myPrec)
wrap(item, myPrec) ==
    IF item.precedence # 0 /\ item.precedence < myPrec
    THEN <<Sym("(")>> \o item.expr \o <<Sym(")")>>
    ELSE item.expr

\* ops for the pair a, b, in the order they are pushed
SolutionOps(a, b, difficulty) ==
    <<[value |-> a.value + b.value,
       expr |-> a.expr \o <<Sym("+")>> \o b.expr, precedence |-> 1],
      [value |-> a.value - b.value,
       expr |-> a.expr \o <<Sym("-")>> \o wrap(b, 2), precedence |-> 1]>> \o
    (IF difficulty # "easy"
     THEN <<[value |-> a.value * b.value,
             expr |-> wrap(a, 2) \o <<Sym("*")>> \o wrap(b, 2), precedence |-> 2]>> \o
          (IF ExactQuotient(a.value, b.value) # {}
           THEN <<[value |-> CHOOSE q \in ExactQuotient(a.value, b.value) : TRUE,
                   expr |-> wrap(a, 2) \o <<Sym("/")>> \o wrap(b, 2), precedence |-> 2]>>
           ELSE <<>>)
     ELSE <<>>)

\* The item lists explore is called on, in call order: [op, ...remaining] for
\* each pair and each op.
NextItemLists(currentItems, difficulty) ==
    LET n == Len(currentItems)
    IN  Flatten([k \in 1..(n * (n - 1)) |->
                    LET i == PairAt(n, k)[1]
                        j == PairAt(n, k)[2]
                        ops == SolutionOps(currentItems[i], currentItems[j], difficulty)
                    IN  [m \in 1..Len(ops) |->
                            <<ops[m]>> \o RemainingItems(currentItems, i, j)]])

\* findSolution's explore: <<expr>> for the first item found with the target's
\* value, <<>> while result is null.
RECURSIVE exploreItems(_, _, _), FirstResult(_, _, _, _)
exploreItems(currentItems, target, difficulty) ==
    LET hits == {k \in 1..Len(currentItems) : currentItems[k].value = target}
    IN  IF hits # {}
        THEN <<currentItems[CHOOSE k \in hits : \A h \in hits : k <= h].expr>>
        ELSE IF Len(currentItems) <= 1 THEN <<>>
        ELSE FirstResult(NextItemLists(currentItems, difficulty), 1, target, difficulty)

FirstResult(lists, k, target, difficulty) ==
    IF k > Len(lists) THEN <<>>
    ELSE LET result == exploreItems(lists[k], target, difficulty)
         IN  IF result # <<>> THEN result
             ELSE FirstResult(lists, k + 1, target, difficulty)

\* "Sin solución encontrada??"
NoSolution == <<Sym("Sin solucion encontrada??")>>

\* initialItems: the cards, then the variables under their symbols
InitialItems(cards, variableValues) ==
    [k \in 1..Len(cards) |-> [value |-> cards[k], expr |-> <<Num(cards[k])>>,
                              precedence |-> 3]] \o
    [k \in 1..Len(ValuesOf(variableValues)) |->
        LET symbol == SelectSeq(VariableSymbols,
                                LAMBDA v : v \in DOMAIN variableValues)[k]
        IN  [value |-> variableValues[symbol], expr |-> <<Sym(symbol)>>,
             precedence |-> 3]]

\* A findSolution that searches over the cards alone.
findSolutionCardsOnly(target, cards, difficulty, variableValues) ==
    LET result == exploreItems(InitialItems(cards, EmptyMap), target, difficulty)
    IN  IF result # <<>> THEN result[1] ELSE NoSolution

findSolution(target, cards, difficulty, variableValues) ==
    LET result == exploreItems(InitialItems(cards, variableValues), target, difficulty)
    IN  IF result # <<>> THEN result[1] ELSE NoSolution

\* nextSteps for the pair a, b, in the order they are pushed
NextStepsInOrder(a, b, operators) ==
    (IF "+" \in operators THEN <<a + b>> ELSE <<>>) \o
    (IF "-" \in operators THEN <<a - b>> ELSE <<>>) \o
    (IF "*" \in operators THEN <<a * b>> ELSE <<>>) \o
    (IF "/" \in operators /\ ExactQuotient(a, b) # {}
     THEN <<CHOOSE q \in ExactQuotient(a, b) : TRUE>> ELSE <<>>)

\* The number lists explore is called on, in call order.
NextNumberLists(currentNumbers, operators) ==
    LET n == Len(currentNumbers)
    IN  Flatten([k \in 1..(n * (n - 1)) |->
                    LET i == PairAt(n, k)[1]
                        j == PairAt(n, k)[2]
                        steps == NextStepsInOrder(currentNumbers[i], currentNumbers[j],
                                                  operators)
                    IN  [m \in 1..Len(steps) |->
                            <<steps[m]>> \o RemainingItems(currentNumbers, i, j)]])

\* The member of `wanted` that explore adds to possibleResults first (a Set
\* iterates in insertion order): <<v>>, or <<>> when it adds none.
RECURSIVE firstAdded(_, _, _), FirstAddedIn(_, _, _, _)
firstAdded(currentNumbers, operators, wanted) ==
    LET hits == {k \in 1..Len(currentNumbers) : Abs(currentNumbers[k]) \in wanted}
    IN  IF hits # {}
        THEN <<Abs(currentNumbers[CHOOSE k \in hits : \A h \in hits : k <= h])>>
        ELSE IF Len(currentNumbers) <= 1 THEN <<>>
        ELSE FirstAddedIn(NextNumberLists(currentNumbers, operators), 1, operators, wanted)

FirstAddedIn(lists, k, operators, wanted) ==
    IF k > Len(lists) THEN <<>>
    ELSE LET found == firstAdded(lists[k], operators, wanted)
         IN  IF found # <<>> THEN found
             ELSE FirstAddedIn(lists, k + 1, operators, wanted)

\* distA of the fallback's comparator
RangeDistance(a, min, max) ==
    IF a < min THEN min - a ELSE IF a > max THEN a - max ELSE 0

\* Math.max(min, Math.min(max, v))
ClampToRange(v, min, max) ==
    LET low == IF max < v THEN max ELSE v
    IN  IF min > low THEN min ELSE low

RECURSIVE SumOf(_)
SumOf(numbers) == IF numbers = <<>> THEN 0 ELSE Head(numbers) + SumOf(Tail(numbers))

\* A generateTargetByDifficulty whose fallback returns the closest result as
\* it is.
generateTargetByDifficultyUnclamped(difficulty, cards, variableValues) ==
    LET min == ClientTargetRange(difficulty).min
        max == ClientTargetRange(difficulty).max
        allNumbers == AllNumbers(cards, variableValues)
        possibleResults == explore(allNumbers, ClientOperators(difficulty))
        validTargets == {val \in possibleResults : val >= min /\ val <= max}
        allResults == {val \in possibleResults : val > 0}
        nearest == {a \in allResults :
                       \A b \in allResults :
                           RangeDistance(a, min, max) <= RangeDistance(b, min, max)}
    IN  IF validTargets # {} THEN validTargets
        ELSE IF allResults # {}
        THEN {firstAdded(allNumbers, ClientOperators(difficulty), nearest)[1]}
        ELSE {ClampToRange(SumOf(allNumbers), min, max)}

\* generateTargetByDifficulty: the targets it can return (one per element of
\* validTargets the random index can select).  The stable sort of the fallback
\* puts first the nearest result that was added first.
generateTargetByDifficulty(difficulty, cards, variableValues) ==
    LET min == ClientTargetRange(difficulty).min
        max == ClientTargetRange(difficulty).max
        allNumbers == AllNumbers(cards, variableValues)
        possibleResults == explore(allNumbers, ClientOperators(difficulty))
        validTargets == {val \in possibleResults : val >= min /\ val <= max}
        allResults == {val \in possibleResults : val > 0}
        nearest == {a \in allResults :
                       \A b \in allResults :
                           RangeDistance(a, min, max) <= RangeDistance(b, min, max)}
    IN  IF validTargets # {} THEN validTargets
        ELSE IF allResults # {}
        THEN {ClampToRange(firstAdded(allNumbers, ClientOperators(difficulty), nearest)[1],
                           min, max)}
        ELSE {ClampToRange(SumOf(allNumbers), min, max)}

-----------------------------------------------------------------------------
(* The client functions on their own, as test-targets.mjs calls them: a     *)
(* target is generated for a hand, or a solution is searched for a target.  *)
(* A behaviour is one call.                                                 *)

\* Values on the cards of the hands.
HandValues == {2, 3, 6, 8}

\* Number of cards of a hand.
HandSize == 3

\* Values of x, for the hands that have the variable.
XValues == {2}

\* Targets a solution is searched for.
SolveTargets == 1..16

\* The hands: hands of cards only at every difficulty, medium ones with x,
\* and the empty hand.
Hands ==
    {[difficulty |-> d, cards |-> cards, variableValues |-> EmptyMap] :
        d \in {"easy", "medium", "hard"}, cards \in [1..HandSize -> HandValues]} \cup
    {[difficulty |-> "medium", cards |-> cards, variableValues |-> [s \in {"x"} |-> x]] :
        cards \in [1..(HandSize - 1) -> HandValues], x \in XValues} \cup
    {[difficulty |-> d, cards |-> <<>>, variableValues |-> EmptyMap] :
        d \in {"easy", "medium", "hard"}}

ClientEvent(op, hand, target, solution) ==
    [op |-> op, sock |-> "", room |-> "", resolved |-> FALSE, over |-> {},
     hand |-> hand, target |-> target, solution |-> solution]

\* generateTargetByDifficulty(difficulty, cards, varValues)
GenerateTarget(hand) ==
    /\ last.op = "init"
    /\ \E target \in generateTargetByDifficulty(hand.difficulty, hand.cards,
                                                hand.variableValues) :
          last' = ClientEvent("generateTargetByDifficulty", hand, target, <<>>)
    /\ UNCHANGED <<lobbies, playerToRoom, games, timers, resolutions>>

\* findSolution(target, cards, difficulty, varValues)
FindSolution(hand, target) ==
    /\ last.op = "init"
    /\ last' = ClientEvent("findSolution", hand, target,
                           findSolution(target, hand.cards, hand.difficulty,
                                        hand.variableValues))
    /\ UNCHANGED <<lobbies, playerToRoom, games, timers, resolutions>>

ClientNext ==
    \/ \E hand \in Hands : GenerateTarget(hand)
    \/ \E hand \in Hands, target \in SolveTargets : FindSolution(hand, target)

ClientSpec == Init /\ [][ClientNext]_vars

\* The reachable set of a hand: what explore records for its cards and
\* variable values.
ReachableSet(hand) ==
    explore(AllNumbers(hand.cards, hand.variableValues), ClientOperators(hand.difficulty))

\* The numerals and variable symbols of an expression.
Atoms(expr) == SelectSeq(expr, LAMBDA tok : tok.t = "n" \/ IsVar(tok))

\* Each card value occurs in expr at most as often as on the cards, and each
\* variable of the hand at most once; nothing else occurs.
UsesEachAtMostOnce(expr, hand) ==
    /\ \A v \in {Atoms(expr)[k].v : k \in {m \in DOMAIN Atoms(expr) :
                                               Atoms(expr)[m].t = "n"}} :
          Cardinality({k \in DOMAIN Atoms(expr) :
                          Atoms(expr)[k].t = "n" /\ Atoms(expr)[k].v = v})
             <= Cardinality({k \in DOMAIN hand.cards : hand.cards[k] = v})
    /\ \A k \in DOMAIN Atoms(expr) :
          IsVar(Atoms(expr)[k]) =>
             /\ Atoms(expr)[k].t \in DOMAIN hand.variableValues
             /\ \A m \in DOMAIN Atoms(expr) : Atoms(expr)[m].t = Atoms(expr)[k].t => m = k

\* The value of an expression string under JavaScript's precedence, after
\* variable substitution.
ValueOf(expr, hand) == Eval(SubstituteVariables(expr, hand.variableValues))

\* C27: for every hand and every target in the hand's reachable set,
\* findSolution returns an expression that uses each card and each variable of
\* the hand at most once and whose value, after variable substitution and
\* under standard operator precedence, is the target.
C27_SolutionEvaluatesToTarget ==
    (last.op = "findSolution" /\ last.target \in ReachableSet(last.hand)) =>
        /\ last.solution # NoSolution
        /\ UsesEachAtMostOnce(last.solution, last.hand)
        /\ ValueOf(last.solution, last.hand).ok
        /\ ValueOf(last.solution, last.hand).v = Whole(last.target)

\* The members of a hand's reachable set inside the target range of its
\* difficulty.
ReachableInRange(hand) ==
    {v \in ReachableSet(hand) : /\ v >= ClientTargetRange(hand.difficulty).min
                                /\ v <= ClientTargetRange(hand.difficulty).max}

\* The clamped fallbacks of a hand: a positive member of the reachable set
\* that no other is nearer to the target range, clamped into the range, or the
\* clamped sum of the hand when nothing positive is reachable.
ClampedFallbacks(hand) ==
    LET min == ClientTargetRange(hand.difficulty).min
        max == ClientTargetRange(hand.difficulty).max
        positive == {v \in ReachableSet(hand) : v > 0}
    IN  IF positive # {}
        THEN {ClampToRange(v, min, max) :
                 v \in {a \in positive :
                           \A b \in positive :
                               RangeDistance(a, min, max) <= RangeDistance(b, min, max)}}
        ELSE {ClampToRange(SumOf(AllNumbers(hand.cards, hand.variableValues)), min, max)}

C28_WitnessFallback ==
    /\ last.op = "generateTargetByDifficulty"
    /\ Len(last.hand.cards) = HandSize
    /\ ReachableInRange(last.hand) = {}
    /\ last.target \notin ReachableSet(last.hand)

\* The values of the expressions over currentNumbers that use each number at
\* most once, with the operators given and divisions that are exact.
RECURSIVE ValuesOver(_, _)
ValuesOver(currentNumbers, operators) ==
    {currentNumbers[k] : k \in 1..Len(currentNumbers)} \cup
    (IF Len(currentNumbers) <= 1 THEN {}
     ELSE UNION {UNION {ValuesOver(<<res>> \o RemainingItems(currentNumbers, p[1], p[2]),
                                   operators) :
                           res \in NextSteps(currentNumbers[p[1]], currentNumbers[p[2]],
                                             operators)} :
                   p \in {q \in (1..Len(currentNumbers)) \X (1..Len(currentNumbers)) :
                             q[1] # q[2]}})

\* Some expression over the hand evaluates to the target.
Solvable(hand, target) ==
    target \in ValuesOver(AllNumbers(hand.cards, hand.variableValues),
                          ClientOperators(hand.difficulty))

C29_WitnessSolved ==
    /\ last.op = "findSolution"
    /\ last.hand.variableValues # EmptyMap
    /\ last.target \notin ValuesOver(last.hand.cards, ClientOperators(last.hand.difficulty))
    /\ last.solution # NoSolution
    /\ \E k \in DOMAIN last.solution : IsVar(last.solution[k])

\* calculateDamage for a result at the given distance above (side = 1) or
\* below (side = -1) the target.
DamageAt(target, side, distance, difficulty) ==
    calculateDamage(Whole(target + side * distance), target, difficulty)

\* C30: for every difficulty profile and the target of every session,
\* calculateDamage classifies a result whose distance to the target is the
\* profile's miss threshold as a miss with damage 0, and a result whose
\* distance is one less than the threshold as no miss, with damage above 0.
C30_MissThresholdBoundary ==
    \A c \in DOMAIN games : \A d \in AllDifficulties : \A side \in {-1, 1} :
        LET miss == DIFFICULTY_CONFIG(d).accuracyThresholds.miss
            atThreshold == DamageAt(games[c].target, side, miss, d)
            below == DamageAt(games[c].target, side, miss - 1, d)
        IN  /\ atThreshold.isMiss
            /\ atThreshold.type = "miss"
            /\ atThreshold.damage = 0
            /\ ~below.isMiss
            /\ below.damage > 0

C30_WitnessCase(gm, c) ==
    LET miss == DIFFICULTY_CONFIG(gm[c].difficulty).accuracyThresholds.miss
    IN  /\ gm[c].player1.result = Whole(gm[c].target + miss)
        /\ gm[c].player2.result = Whole(gm[c].target + miss - 1)
        /\ Scored(gm, c, "player1").isMiss
        /\ Scored(gm, c, "player1").damage = 0
        /\ ~Scored(gm, c, "player2").isMiss
        /\ RoundResult(gm, c).player1.damageTaken = Scored(gm, c, "player2").damage
        /\ RoundResult(gm, c).player1.damageTaken > 0
        /\ RoundResult(gm, c).player2.damageTaken = 0

\* A round about to be closed in which player1 answered at the miss threshold
\* from the target and player2 one nearer: player1 deals nothing and takes the
\* damage of player2's answer.
C30_Witness == SomeClosedRound(C30_WitnessCase)

-----------------------------------------------------------------------------
(* src/utils/gameLogic.js, the streak system, and App.jsx's use of it for   *)
(* one player: submitAttack feeds the player's streak to                    *)
(* calculateStreakBonus and stores newStreak; a surrender stores 0.         *)

\* DIFFICULTY_CONFIG[difficulty].streakConfig (minStreak, bonus, intensity)
streakConfig(difficulty) ==
    CASE difficulty = "easy" ->
           <<[minStreak |-> 0, bonus |-> 0, intensity |-> 0],
             [minStreak |-> 3, bonus |-> 5, intensity |-> 1],
             [minStreak |-> 4, bonus |-> 10, intensity |-> 2],
             [minStreak |-> 5, bonus |-> 15, intensity |-> 3],
             [minStreak |-> 6, bonus |-> 25, intensity |-> 4]>>
      [] difficulty = "medium" ->
           <<[minStreak |-> 0, bonus |-> 0, intensity |-> 0],
             [minStreak |-> 2, bonus |-> 8, intensity |-> 1],
             [minStreak |-> 3, bonus |-> 15, intensity |-> 2],
             [minStreak |-> 4, bonus |-> 25, intensity |-> 3],
             [minStreak |-> 5, bonus |-> 40, intensity |-> 4]>>
      [] OTHER ->
           <<[minStreak |-> 0, bonus |-> 0, intensity |-> 0],
             [minStreak |-> 2, bonus |-> 15, intensity |-> 1],
             [minStreak |-> 3, bonus |-> 30, intensity |-> 2],
             [minStreak |-> 4, bonus |-> 50, intensity |-> 3],
             [minStreak |-> 5, bonus |-> 80, intensity |-> 4]>>

\* The loop of getStreakTier from index i down.
RECURSIVE TierFrom(_, _, _)
TierFrom(config, i, streak) ==
    IF i < 1 THEN config[1]
    ELSE IF streak >= config[i].minStreak THEN config[i]
    ELSE TierFrom(config, i - 1, streak)

getStreakTier(streak, difficulty) ==
    LET config == streakConfig(difficulty)
        tier == TierFrom(config, Len(config), streak)
    IN  [minStreak |-> tier.minStreak, bonus |-> tier.bonus,
         intensity |-> tier.intensity, currentStreak |-> streak]

\* A calculateStreakBonus that keeps the streak on a non-exact result.
calculateStreakBonusKept(currentStreak, isPerfect, difficulty) ==
    LET newStreak == IF isPerfect THEN currentStreak + 1 ELSE currentStreak
        oldTier == getStreakTier(currentStreak, difficulty)
        newTier == getStreakTier(newStreak, difficulty)
    IN  [oldStreak |-> currentStreak, newStreak |-> newStreak,
         bonus |-> newTier.bonus, tier |-> newTier,
         tierChanged |-> newTier.intensity # oldTier.intensity,
         tierUp |-> newTier.intensity > oldTier.intensity,
         streakBroken |-> ~isPerfect /\ currentStreak >= 2,
         showAnimation |-> newTier.intensity > oldTier.intensity]

calculateStreakBonus(currentStreak, isPerfect, difficulty) ==
    LET newStreak == IF isPerfect THEN currentStreak + 1 ELSE 0
        oldTier == getStreakTier(currentStreak, difficulty)
        newTier == getStreakTier(newStreak, difficulty)
    IN  [oldStreak |-> currentStreak, newStreak |-> newStreak,
         bonus |-> newTier.bonus, tier |-> newTier,
         tierChanged |-> newTier.intensity # oldTier.intensity,
         tierUp |-> newTier.intensity > oldTier.intensity,
         streakBroken |-> ~isPerfect /\ currentStreak >= 2,
         showAnimation |-> newTier.intensity > oldTier.intensity]

\* Turns of the player in one match.
MaxTurns == 6

\* The player's streak (useState(0)) and the turns played so far.
PlayerStreak == IF last.op = "init" THEN 0 ELSE last.streak
Turns == IF last.op = "init" THEN <<>> ELSE last.turns

StreakEvent(op, difficulty, streak, turn) ==
    [op |-> op, sock |-> "", room |-> "", resolved |-> FALSE, over |-> {},
     difficulty |-> difficulty, streak |-> streak, turns |-> Append(Turns, turn)]

\* submitAttack with a valid expression: isPerfect is difference === 0
SubmitAttack(difficulty, isPerfect) ==
    /\ IF last.op = "init" THEN TRUE ELSE last.difficulty = difficulty
    /\ Len(Turns) < MaxTurns
    /\ LET streakResult == calculateStreakBonus(PlayerStreak, isPerfect, difficulty)
       IN  last' = StreakEvent("submitAttack", difficulty, streakResult.newStreak,
                               [op |-> "submitAttack", isPerfect |-> isPerfect,
                                streakResult |-> <<streakResult>>])
    /\ UNCHANGED <<lobbies, playerToRoom, games, timers, resolutions>>

\* closeSolutionAndNextTurn, after a surrender: setPlayer1Streak(0)
CloseSolutionAndNextTurn(difficulty) ==
    /\ IF last.op = "init" THEN TRUE ELSE last.difficulty = difficulty
    /\ Len(Turns) < MaxTurns
    /\ last' = StreakEvent("closeSolutionAndNextTurn", difficulty, 0,
                           [op |-> "closeSolutionAndNextTurn", isPerfect |-> FALSE,
                            streakResult |-> <<>>])
    /\ UNCHANGED <<lobbies, playerToRoom, games, timers, resolutions>>

StreakNext ==
    \/ \E d \in AllDifficulties, isPerfect \in BOOLEAN : SubmitAttack(d, isPerfect)
    \/ \E d \in AllDifficulties : CloseSolutionAndNextTurn(d)

StreakSpec == Init /\ [][StreakNext]_vars

\* The streak the player had before turn k.
StreakBefore(turns, k) ==
    IF k = 1 THEN 0
    ELSE IF turns[k - 1].streakResult = <<>> THEN 0
    ELSE turns[k - 1].streakResult[1].newStreak

\* C31: along the turns of a match, starting from streak 0, every call of
\* calculateStreakBonus is made with the streak the turn before left, returns
\* that streak plus 1 after an exact hit and 0 after a non-exact result, and
\* raises streakBroken exactly when the result is not exact and the streak
\* before was at least 2; the streak kept is the one returned, and 0 after a
\* surrender.
C31_StreakCountsExactHits ==
    /\ \A k \in DOMAIN Turns :
          Turns[k].streakResult # <<>> =>
             LET r == Turns[k].streakResult[1]
                 before == StreakBefore(Turns, k)
             IN  /\ r.oldStreak = before
                 /\ r.newStreak = IF Turns[k].isPerfect THEN before + 1 ELSE 0
                 /\ r.streakBroken <=> (~Turns[k].isPerfect /\ before >= 2)
    /\ PlayerStreak = IF Turns = <<>> THEN 0 ELSE StreakBefore(Turns, Len(Turns) + 1)

\* Three exact hits and a miss: the streaks are 1, 2, 3, 0 and only the miss
\* raises streakBroken.
C31_Witness ==
    /\ Len(Turns) = 4
    /\ \A k \in 1..4 : Turns[k].op = "submitAttack" /\ (Turns[k].isPerfect <=> k < 4)
    /\ [k \in 1..4 |-> Turns[k].streakResult[1].newStreak] = <<1, 2, 3, 0>>
    /\ [k \in 1..4 |-> Turns[k].streakResult[1].streakBroken] = <<FALSE, FALSE, FALSE, TRUE>>
    /\ PlayerStreak = 0

-----------------------------------------------------------------------------
(* The session's life cycle and the server's bookkeeping.                   *)

\* The fields of a session that a round is played on.
RoundState(game) ==
    [round |-> game.round, target |-> game.target,
     variableValues |-> game.variableValues, sharedCards |-> game.sharedCards,
     sharedVariables |-> game.sharedVariables, status |-> game.status,
     player1 |-> game.player1, player2 |-> game.player2]

\* C32: a game:nextRound takes effect only on a session in waiting_next: while
\* the session is playing or finished the request changes nothing of it (round
\* counter, cards, target, hp, submissions), and when it does take effect the
\* round counter grows by one.
C32_NextRoundOnlyFromWaitingNext ==
    [][\A c \in RoomCodes :
          (/\ last'.op = "game:nextRound" /\ last'.room = c
           /\ MapHas(games, c) /\ MapHas(games', c))
          => /\ games[c].status # "waiting_next" =>
                   RoundState(games'[c]) = RoundState(games[c])
             /\ games[c].status = "waiting_next" =>
                   games'[c].round = games[c].round + 1]_vars

\* The step closes a round of room c without ending the match.
RoundClosedOpen(c) ==
    /\ last'.resolved /\ last'.room = c
    /\ MapHas(games, c) /\ games[c].status = "playing"
    /\ MapHas(games', c) /\ games'[c].status # "finished"

\* C33: a resolveRound that does not end the match leaves the session in
\* waiting_next with the expression, result and submitted flag of both players
\* cleared, and leaves the shared cards, the shared variables, the variable
\* values, the target and the round counter as they were.
C33_ResolveClearsSubmissionsOnly ==
    [][\A c \in RoomCodes :
          RoundClosedOpen(c) =>
             /\ games'[c].status = "waiting_next"
             /\ \A slot \in Slots :
                   /\ games'[c][slot].expression = <<>>
                   /\ games'[c][slot].result = NullResult
                   /\ ~games'[c][slot].submitted
                   /\ games'[c][slot].cards = games[c][slot].cards
                   /\ games'[c][slot].variables = games[c][slot].variables
             /\ games'[c].sharedCards = games[c].sharedCards
             /\ games'[c].sharedVariables = games[c].sharedVariables
             /\ games'[c].variableValues = games[c].variableValues
             /\ games'[c].target = games[c].target
             /\ games'[c].round = games[c].round]_vars

\* A round has just been resolved with damage dealt and the match goes on:
\* the session waits for the next round with both answers cleared.
C33_Witness ==
    /\ last.resolved
    /\ MapHas(games, last.room)
    /\ games[last.room].status = "waiting_next"
    /\ games[last.room].player1.hp < games[last.room].player1.maxHp
    /\ \A slot \in Slots : /\ games[last.room][slot].expression = <<>>
                           /\ ~games[last.room][slot].submitted

-----------------------------------------------------------------------------
(* What findSolution writes while it searches.                              *)

\* The lists explore is called on for the k-th pair of currentItems.
PairLists(currentItems, k, difficulty) ==
    LET n == Len(currentItems)
        i == PairAt(n, k)[1]
        j == PairAt(n, k)[2]
        ops == SolutionOps(currentItems[i], currentItems[j], difficulty)
    IN  [m \in 1..Len(ops) |-> <<ops[m]>> \o RemainingItems(currentItems, i, j)]

\* The lists among `lists` that explore is called on before result is set.
CalledLists(lists, target, difficulty) ==
    LET found == {m \in 1..Len(lists) :
                     exploreItems(lists[m], target, difficulty) # <<>>}
    IN  IF found = {} THEN 1..Len(lists)
        ELSE 1..(CHOOSE m \in found : \A h \in found : m <= h)

\* The pairs of currentItems whose ops are built before result is set.
BuiltPairs(currentItems, target, difficulty) ==
    LET n == Len(currentItems)
        found == {k \in 1..(n * (n - 1)) :
                     \E m \in DOMAIN PairLists(currentItems, k, difficulty) :
                         exploreItems(PairLists(currentItems, k, difficulty)[m],
                                      target, difficulty) # <<>>}
    IN  IF found = {} THEN 1..(n * (n - 1))
        ELSE 1..(CHOOSE k \in found : \A h \in found : k <= h)

\* The subtractions and divisions findSolution writes in its search for the
\* target: the operator, the right-hand item b and the string written.
RECURSIVE Renderings(_, _, _)
Renderings(currentItems, target, difficulty) ==
    IF \E k \in DOMAIN currentItems : currentItems[k].value = target THEN {}
    ELSE IF Len(currentItems) <= 1 THEN {}
    ELSE UNION {
            LET lists == PairLists(currentItems, k, difficulty)
                b == currentItems[PairAt(Len(currentItems), k)[2]]
            IN  {[op |-> IF m = 2 THEN "-" ELSE "/", b |-> b, expr |-> lists[m][1].expr] :
                    m \in {2, 4} \cap DOMAIN lists} \cup
                UNION {Renderings(lists[m], target, difficulty) :
                          m \in CalledLists(lists, target, difficulty)} :
            k \in BuiltPairs(currentItems, target, difficulty)}

\* The string ends with b's string in parentheses.
EndsWrapped(expr, b) ==
    /\ Len(expr) >= Len(b.expr) + 2
    /\ SubSeq(expr, Len(expr) - Len(b.expr) - 1, Len(expr)) =
          <<Sym("(")>> \o b.expr \o <<Sym(")")>>

\* C34: in every a - b and a / b that findSolution writes, a right-hand
\* operand b that is itself the result of an earlier combination stands in
\* parentheses.
C34_CompositeRightOperandWrapped ==
    last.op = "findSolution" =>
        \A r \in Renderings(InitialItems(last.hand.cards, last.hand.variableValues),
                            last.target, last.hand.difficulty) :
            r.b.precedence < 3 => EndsWrapped(r.expr, r.b)

\* What getGameState shows a player of the round: cards, variables, target
\* and variable values.
RoundView(gm, c, playerId) ==
    LET view == getGameState(gm, c, playerId)[1]
    IN  [myCards |-> view.myCards, myVariables |-> view.myVariables,
         target |-> view.target, variableValues |-> view.variableValues]

\* C35: in every session both players hold the session's shared cards and
\* shared variables, and getGameState shows both the same cards, variables,
\* target and variable values, after initializeGame and after every
\* startNextRound.
C35_PlayersShareTheRound ==
    \A c \in DOMAIN games :
        /\ games[c].player1.cards = games[c].sharedCards
        /\ games[c].player2.cards = games[c].sharedCards
        /\ games[c].player1.variables = games[c].sharedVariables
        /\ games[c].player2.variables = games[c].sharedVariables
        /\ RoundView(games, c, games[c].player1.id) =
              RoundView(games, c, games[c].player2.id)

\* A second round was dealt, with cards that are not all alike and a variable,
\* and both players see it.
C35_Witness ==
    \E c \in DOMAIN games :
        /\ last.op = "startNextRound"
        /\ games[c].round = 2
        /\ games[c].sharedCards[1] # games[c].sharedCards[2]
        /\ games[c].sharedVariables # <<>>
        /\ games[c].player2.cards = games[c].sharedCards
        /\ RoundView(games, c, "s2").myCards = games[c].sharedCards

-----------------------------------------------------------------------------
(* The cleanup timer, late submissions and late leaves.                     *)

\* C36: the cleanup scheduled after a game-over removes only the finished
\* session it was scheduled for: when the timer fires for a room whose
\* session is a match still being played (the guest left, another guest
\* joined and the host started again), that session stays.
C36_TimerSparesNewSession ==
    [][\A c \in RoomCodes :
          (last'.op = "timer" /\ last'.room = c /\ MapHas(games, c)
              /\ games[c].status # "finished")
          => (MapHas(games', c) /\ games'[c] = games[c])]_vars

\* C37: a game:submit or game:skip whose sender is neither player of the
\* session named by its room code leaves that session unchanged.
C37_OnlyPlayersSubmit ==
    [][\A c \in RoomCodes :
          (last'.op \in {"game:submit", "game:skip"} /\ last'.room = c
              /\ MapHas(games, c)
              /\ last'.sock \notin {games[c].player1.id, games[c].player2.id})
          => (MapHas(games', c) /\ games'[c] = games[c])]_vars

\* The winner the resolution that finished a session announced: resolveRound
\* derives it from the two hp it has just stored.
AnnouncedWinner(game) ==
    GameOver(game, game.player1.hp, game.player2.hp).gameWinner

\* C38: once a round resolution has announced a match over with a winner, a
\* leave or disconnect that comes while the finished session is still there
\* announces no game-over with another winner.
C38_WinnerStaysAnnounced ==
    [][\A c \in RoomCodes :
          (last'.op \in {"lobby:leave", "disconnect"} /\ last'.room = c
              /\ MapHas(games, c) /\ games[c].status = "finished")
          => \A msg \in last'.over : msg.winner = AnnouncedWinner(games[c])]_vars

\* The lobby registered under a session's code is playing, and the session's
\* players are its host and guest.
OwnedByPlayingLobby(c) ==
    /\ MapHas(lobbies, c)
    /\ lobbies[c].status = "playing"
    /\ games[c].player1.id = lobbies[c].hostId
    /\ games[c].player2.id = lobbies[c].guestId

\* C39: whenever a session exists for a room code, a lobby with that code is
\* registered with status playing and the session's two player ids are that
\* lobby's current host and guest.
C39_SessionHasPlayingLobby ==
    \A c \in DOMAIN games : OwnedByPlayingLobby(c)

\* A player of another room has just left while a session goes on.
C39_Witness ==
    /\ last.op \in {"lobby:leave", "disconnect"}
    /\ \E c \in DOMAIN games : c # last.room /\ OwnedByPlayingLobby(c)

\* A socket is host or guest of a registered lobby.
InSomeLobby(s) ==
    \E c \in DOMAIN lobbies : s \in {lobbies[c].hostId, lobbies[c].guestId}

\* createLobby and joinLobby do not turn the socket away: no outcome of
\* createLobby fails, and joinLobby succeeds on every lobby that waits for a
\* guest.
CanCreateOrJoin(s) ==
    /\ \A d \in Difficulties :
          \A o \in createLobby(Reg, s, PlayerName(s), d) : o.ok
    /\ \A c \in DOMAIN lobbies :
          (lobbies[c].status = "waiting" /\ lobbies[c].guestId = Null)
          => joinLobby(Reg, s, c, PlayerName(s)).ok

\* C40: playerToRoom names a player exactly when the player is host or guest
\* of a registered lobby, and then it names that lobby; hence a player who
\* has left, and a guest whose host has left, can create or join again.
C40_IndexMatchesLobbies ==
    \A s \in Sockets :
        /\ MapHas(playerToRoom, s) <=> InSomeLobby(s)
        /\ MapHas(playerToRoom, s)
              => /\ MapHas(lobbies, playerToRoom[s])
                 /\ s \in {lobbies[playerToRoom[s]].hostId,
                           lobbies[playerToRoom[s]].guestId}
        /\ ~InSomeLobby(s) => CanCreateOrJoin(s)

\* A host has just left a match: the lobby is gone, and the guest, who was
\* told of the forfeit, is free and has a lobby to create and one to join.
C40_Witness ==
    /\ last.op \in {"lobby:leave", "disconnect"}
    /\ ~MapHas(lobbies, last.room)
    /\ \E msg \in last.over :
          /\ msg.to \in Sockets \ {last.sock}
          /\ ~MapHas(playerToRoom, msg.to)
          /\ \E o \in createLobby(Reg, msg.to, PlayerName(msg.to), "easy") : o.ok
          /\ \E c \in DOMAIN lobbies : joinLobby(Reg, msg.to, c, PlayerName(msg.to)).ok

====
